---- MODULE Spec2Model ----
(***************************************************************************)
(* Model of the Taurion game-state processor: the per-block state          *)
(* transition (PXLogic::UpdateState) and the combat subsystem (target      *)
(* finding, damage dealing, kill processing, regeneration).                *)
(***************************************************************************)
EXTENDS Integers, Sequences, FiniteSets, TLC

VARIABLES
    cdArgs,     \* ComputeDamage: the arguments of the call under test
    cdDone,     \* ComputeDamage: the proto::HP it returned
    detIn,      \* destroyed building: combined inventory and random stream
    detRun,     \* destroyed building: the two executions of the drop loop
    roConfig,   \* block processing: the fighters' static configuration
    database,   \* block processing: the fighters' rows and the damage lists
    proc,       \* block processing: the DamageProcessor of the block
    run,        \* block processing: where UpdateState stands
    obs,        \* block processing: record of what has been done this block
    ordIn,      \* processing order: fighters, rolls and an order of attackers
    ordOut,     \* processing order: the outcomes of the two executions
    fnArgs,     \* function call: the function under test and its arguments
    fnOut,      \* function call: what the call returned
    mapCfg,     \* map: the read-only configuration of the fighters
    mapSt,      \* map: the fighters' rows and where the block stands
    world,      \* kills: characters, ongoing operations, regions and loot
    kill,       \* kills: the characters killed and the last kill processed
    bworld,     \* destroyed buildings: buildings, accounts, orders and loot
    bkill,      \* destroyed buildings: the dead set and where ProcessKills is
    dynIn,      \* dynamic obstacles: the calls made on the index so far
    dynSt,      \* dynamic obstacles: the index itself
    entCfg,     \* entering buildings: the intents and moves of the block
    entSt,      \* entering buildings: the characters and where the block is
    busySt,     \* busy phase: characters, regions, prizes and the block's phase
    accSt       \* factions: accounts, characters and buildings

cdVars == <<cdArgs, cdDone>>

detVars == <<detIn, detRun>>

blkVars == <<roConfig, database, proc, run, obs>>

ordVars == <<ordIn, ordOut>>

fnVars == <<fnArgs, fnOut>>

mapVars == <<mapCfg, mapSt>>

killVars == <<world, kill>>

bldVars == <<bworld, bkill>>

dynVars == <<dynIn, dynSt>>

entVars == <<entCfg, entSt>>

busyVars == <<busySt>>

accVars == <<accSt>>

vars == <<cdArgs, cdDone, detIn, detRun, roConfig, database, proc,
         run, obs, ordIn, ordOut, fnArgs, fnOut, mapCfg, mapSt,
          world, kill, bworld, bkill, dynIn, dynSt, entCfg, entSt,
          busySt, accSt>>

(***************************************************************************)
(* Bounds of the model.                                                    *)
(***************************************************************************)
MaxDmg == 6
MaxHp == 4
NumItems == 3
MaxQty == 2

(***************************************************************************)
(* Generic helpers.                                                        *)
(***************************************************************************)
Min(a, b) == IF a < b THEN a ELSE b

Max(a, b) == IF a > b THEN a ELSE b

\* C++ integer division (truncation toward zero).
TruncDiv(a, b) == IF a >= 0 THEN a \div b ELSE -((-a) \div b)

\* An optional proto field that is not set.
Unset == -1

(***************************************************************************)
(* ComputeDamage: the damage done against shield and armour for a damage   *)
(* roll, the attack's shield/armour percentages and the target's HP.       *)
(***************************************************************************)
ShieldPercent(pb) == IF pb.shield_percent # Unset THEN pb.shield_percent ELSE 100

ArmourPercent(pb) == IF pb.armour_percent # Unset THEN pb.armour_percent ELSE 100

\* Base damage that is left for the armour after the shield has been
\* exhausted by doneShield.
BaseLeftForArmour(dmg, pb, doneShield) ==
    IF doneShield > 0
    THEN dmg - ((doneShield * 100) \div ShieldPercent(pb))
    ELSE dmg

ComputeDamage_ArmourAlways(dmg, pb, hp) ==
    LET availableForShield == (dmg * ShieldPercent(pb)) \div 100
        doneShield == Min(availableForShield, hp.shield)
        left == BaseLeftForArmour(dmg, pb, doneShield)
        availableForArmour == (left * ArmourPercent(pb)) \div 100
    IN  [shield |-> doneShield, armour |-> Min(availableForArmour, hp.armour)]

ComputeDamage(dmg, pb, hp) ==
    LET availableForShield == (dmg * ShieldPercent(pb)) \div 100
        doneShield == Min(availableForShield, hp.shield)
        left == BaseLeftForArmour(dmg, pb, doneShield)
        availableForArmour == (left * ArmourPercent(pb)) \div 100
        doneArmour == Min(availableForArmour, hp.armour)
    IN  IF doneShield < hp.shield
        THEN [shield |-> doneShield, armour |-> 0]
        ELSE [shield |-> doneShield, armour |-> doneArmour]

\* The CHECKs inside ComputeDamage: TRUE iff one of them fails.
ComputeDamageCheckFails(dmg, pb, hp) ==
    LET done == ComputeDamage(dmg, pb, hp)
        left == BaseLeftForArmour(dmg, pb, done.shield)
    IN  \/ done.shield > hp.shield
        \/ /\ done.shield = hp.shield
           /\ done.shield > 0
           /\ (done.shield * 100) \div ShieldPercent(pb) > dmg
        \/ /\ done.shield = hp.shield
           /\ done.armour > 0
           /\ (done.armour * 100) \div ArmourPercent(pb) > left

(***************************************************************************)
(* Fighters.  A fighter is identified by its TargetKey <<type, id>>; keys  *)
(* are ordered by type and then id.                                        *)
(***************************************************************************)
INVALID_TYPE == 0
TYPE_CHARACTER == 1
TYPE_BUILDING == 2

Keys == {<<TYPE_CHARACTER, 2>>, <<TYPE_CHARACTER, 3>>, <<TYPE_BUILDING, 1>>}

NoTarget == <<INVALID_TYPE, 0>>

\* operator< of TargetKey (a std::pair).
KeyLess(a, b) == a[1] < b[1] \/ (a[1] = b[1] /\ a[2] < b[2])

\* The keys of set S in descending order.
RECURSIVE KeySeq_Descending(_)
KeySeq_Descending(S) ==
    IF S = {} THEN <<>>
    ELSE LET k == CHOOSE x \in S : \A y \in S : y = x \/ KeyLess(y, x)
         IN  <<k>> \o KeySeq_Descending(S \ {k})

\* The keys of set S in ascending order, as a std::set or std::map of
\* TargetKey is iterated.
RECURSIVE KeySeq(_)
KeySeq(S) ==
    IF S = {} THEN <<>>
    ELSE LET k == CHOOSE x \in S : \A y \in S : y = x \/ KeyLess(x, y)
         IN  <<k>> \o KeySeq(S \ {k})

IndexOfKey(seq, k) == CHOOSE i \in 1..Len(seq) : seq[i] = k

\* HexCoord::DistanceL1 on axial coordinates <<x, y>>.
Abs(n) == IF n < 0 THEN -n ELSE n

DistanceL1(a, b) ==
    LET dx == a[1] - b[1]
        dy == a[2] - b[2]
    IN  (Abs(dx) + Abs(dy) + Abs(dx + dy)) \div 2

\* SafeZones::IsNoCombat: the tiles of the map that are no-combat zones.
NoCombatTiles == {<<0, 2>>}

IsNoCombat(c) == c \in NoCombatTiles

\* StatModifier::operator(): a percentage applied to a base value.
StatApply(percent, base) == TruncDiv(base * (100 + percent), 100)

\* proto::CombatEffects without any effect.
NoFx == [speed |-> 0, range |-> 0, hit_chance |-> 0, shield_regen |-> 0,
         mentecon |-> FALSE]

RECURSIVE SumSeq(_)
SumSeq(s) == IF s = <<>> THEN 0 ELSE Head(s) + SumSeq(Tail(s))

ActiveBoosts_AllHp(cd, hp, maxHp) ==
    SelectSeq(cd.low_hp_boosts,
              LAMBDA b : ~(100 * (hp.armour + hp.shield)
                              > b.max_hp_percent * maxHp.armour))

\* The low-HP boosts of combat data cd that apply at the given HP.
ActiveBoosts(cd, hp, maxHp) ==
    SelectSeq(cd.low_hp_boosts,
              LAMBDA b : ~(100 * hp.armour > b.max_hp_percent * maxHp.armour))

\* ComputeModifier: the CombatModifier (as percentages) of an entity with
\* combat data cd, HP hp, maximum HP maxHp and combat effects eff.
ComputeModifier(cd, hp, maxHp, eff) ==
    LET act == ActiveBoosts(cd, hp, maxHp)
    IN  [damage |-> SumSeq([i \in 1..Len(act) |-> act[i].damage]),
         range |-> SumSeq([i \in 1..Len(act) |-> act[i].range]) + eff.range,
         hitChance |-> cd.hit_chance_modifier + eff.hit_chance]

\* ComputeModifier for fighter f as stored in database db.
FighterModifier(cfg, db, f) ==
    ComputeModifier(cfg.cd[f], db.hp[f], cfg.max_hp[f], db.effects[f])

BaseHitChance_Uncapped(target, dmg) ==
    IF target.target_size = Unset \/ dmg.weapon_size = Unset THEN 100
    ELSE IF dmg.weapon_size = 0 THEN 100
    ELSE (target.target_size * 100) \div dmg.weapon_size

\* The CHECKs of BaseHitChance: TRUE iff one of them fails.
BaseHitChanceCheckFails(target, dmg) ==
    /\ target.target_size # Unset /\ dmg.weapon_size # Unset
    /\ target.target_size < dmg.weapon_size
    /\ ~(target.target_size > 0 /\ dmg.weapon_size > 0)

\* BaseHitChance of an attack with Damage proto dmg against combat data
\* target.
BaseHitChance(target, dmg) ==
    IF target.target_size = Unset \/ dmg.weapon_size = Unset THEN 100
    ELSE IF target.target_size >= dmg.weapon_size THEN 100
    ELSE (target.target_size * 100) \div dmg.weapon_size

\* FighterTable::ProcessWithTarget: the fighters that have a target or
\* friendlies in range.
WithTarget(db) ==
    {f \in Keys : db.exists[f] /\ (db.target[f] # NoTarget \/ db.friendly[f])}

\* TargetFinder::ProcessL1Targets: the fighters on the map within L1
\* distance range of centre, enemies and/or friendlies of faction.
ProcessL1Targets(cfg, db, centre, range, faction, enemies, friendlies) ==
    {t \in Keys :
        /\ db.exists[t]
        /\ DistanceL1(centre, db.pos[t]) <= range
        /\ \/ enemies /\ cfg.faction[t] # faction
           \/ friendlies /\ cfg.faction[t] = faction}

ProcessCombatTargets_NoSafeZones(cfg, db, f, centre, range, enemies) ==
    LET mentecon == db.effects[f].mentecon
        found == ProcessL1Targets(cfg, db, centre, range, cfg.faction[f],
                                  enemies \/ mentecon, ~enemies \/ mentecon)
    IN  {t \in found : t # f}

ProcessCombatTargets_WithSelf(cfg, db, f, centre, range, enemies) ==
    LET mentecon == db.effects[f].mentecon
        found == ProcessL1Targets(cfg, db, centre, range, cfg.faction[f],
                                  enemies \/ mentecon, ~enemies \/ mentecon)
    IN  {t \in found : ~IsNoCombat(db.pos[t])}

\* ProcessCombatTargets: the L1 targets without those in a no-combat zone
\* and without the fighter itself; mentecon makes it look for both kinds.
ProcessCombatTargets(cfg, db, f, centre, range, enemies) ==
    LET mentecon == db.effects[f].mentecon
        found == ProcessL1Targets(cfg, db, centre, range, cfg.faction[f],
                                  enemies \/ mentecon, ~enemies \/ mentecon)
    IN  {t \in found : ~IsNoCombat(db.pos[t]) /\ t # f}

(***************************************************************************)
(* DamageProcessor.  The operators below work on a combat state            *)
(*   s = [db |-> the fighters' rows and damage lists,                      *)
(*        p  |-> the fields of the DamageProcessor]                        *)
(* and return the combat state after the call.  p.abort names the CHECK    *)
(* that failed ("" while the process runs); p.log records, in order, what  *)
(* was applied.                                                            *)
(***************************************************************************)
EmptyFn == [x \in {} |-> 0]

ZeroHp == [shield |-> 0, armour |-> 0]

NewProcessor(height) ==
    [modifiers |-> EmptyFn, newEffects |-> EmptyFn, gainHpDrained |-> EmptyFn,
     gainedHp |-> EmptyFn, alreadyDead |-> {}, newDead |-> {},
     toProcess |-> <<>>, used |-> EmptyFn, log |-> <<>>, height |-> height,
     abort |-> ""]

Abort(s, why) == [s EXCEPT !.p.abort = IF @ = "" THEN why ELSE @]

Logged(s, what) == [s EXCEPT !.p.log = Append(@, what)]

\* f with key k set to v (a std::map's operator[] followed by assignment).
MapPut(f, k, v) == [x \in DOMAIN f \cup {k} |-> IF x = k THEN v ELSE f[x]]

MapGet(f, k, default) == IF k \in DOMAIN f THEN f[k] ELSE default

\* The sequences whose i-th element is drawn from the i-th set of sets.
RECURSIVE Choices(_)
Choices(sets) ==
    IF sets = <<>> THEN {<<>>}
    ELSE {<<x>> \o rest : x \in Head(sets), rest \in Choices(Tail(sets))}

\* The functions on Keys whose value at t is drawn from F(t).
KeyChoices(F(_)) ==
    LET ks == KeySeq(Keys)
    IN  {[t \in Keys |-> c[IndexOfKey(ks, t)]] :
            c \in Choices([i \in 1..Len(ks) |-> F(ks[i])])}

\* RollAttackDamage: NextInt (maxDmg - minDmg + 1) returned offset.
RollAttackDamage(dmg, modDamage, offset) == StatApply(modDamage, dmg.min) + offset

\* The values NextInt can return in RollAttackDamage.
RollOffsets(dmg, modDamage) ==
    0..(StatApply(modDamage, dmg.max) - StatApply(modDamage, dmg.min))

\* The modified hit chance of AttackHitsTarget.
HitChance(cfg, target, pb, attackerHitMod) ==
    StatApply(attackerHitMod, BaseHitChance(cfg.cd[target], pb))

\* AttackHitsTarget: no roll is made when the chance is 0 or 100; roll is
\* what ProbabilityRoll (chance, 100) returns otherwise.
AttackHitsTarget(cfg, target, pb, attackerHitMod, roll) ==
    LET chance == HitChance(cfg, target, pb, attackerHitMod)
    IN  IF chance <= 0 THEN FALSE
        ELSE IF chance >= 100 THEN TRUE
        ELSE roll

\* The damage that reaches ComputeDamage in the low-level ApplyDamage:
\* zero if the target is already dead or the attack misses, else the damage
\* as modified by the target's received-damage modifier.
UpdatedDamage(cfg, s, dmg, pb, attackerMod, target, roll) ==
    IF target \in s.p.alreadyDead THEN 0
    ELSE IF ~AttackHitsTarget(cfg, target, pb, attackerMod.hitChance, roll)
    THEN 0
    ELSE StatApply(cfg.cd[target].received_damage_modifier, dmg)

\* The proto::HP returned by the low-level ApplyDamage.
DamageDone(cfg, s, dmg, pb, attackerMod, target, roll) ==
    LET d == UpdatedDamage(cfg, s, dmg, pb, attackerMod, target, roll)
    IN  IF d = 0 THEN ZeroHp ELSE ComputeDamage(d, pb, s.db.hp[target])

\* DamageLists::AddEntry: attacker has damaged victim at the current height.
AddEntry(dl, victim, attacker, height) ==
    {e \in dl : ~(e.victim = victim /\ e.attacker = attacker)}
        \cup {[victim |-> victim, attacker |-> attacker, height |-> height]}

ApplyDamageLow_DeadAtZero(cfg, s, dmg, attacker, pb, attackerMod, target, roll) ==
    LET d == UpdatedDamage(cfg, s, dmg, pb, attackerMod, target, roll)
        hp == s.db.hp[target]
        done == ComputeDamage(d, pb, hp)
        newHp == [hp EXCEPT !.shield = @ - done.shield,
                            !.armour = @ - done.armour]
        dl1 == IF attacker[1] = TYPE_CHARACTER /\ target[1] = TYPE_CHARACTER
               THEN AddEntry(s.db.dl, target[2], attacker[2], s.p.height)
               ELSE s.db.dl
        s1 == [s EXCEPT !.db.dl = dl1, !.db.hp[target] = newHp]
        dies == newHp.armour + newHp.shield = 0
    IN  IF s.p.abort # "" THEN s
        ELSE IF IsNoCombat(s.db.pos[target])
        THEN Abort(s, "ApplyDamage: target in no-combat zone")
        ELSE IF d < 0 THEN Abort(s, "ApplyDamage: negative damage")
        ELSE IF d = 0 THEN s
        ELSE IF ComputeDamageCheckFails(d, pb, hp)
        THEN Abort(s, "ComputeDamage: CHECK failed")
        ELSE IF ~dies THEN s1
        ELSE IF hp.mhp.shield >= 1000 \/ hp.mhp.armour >= 1000
        THEN Abort(s1, "ApplyDamage: partial HP are full")
        ELSE IF target \in s.p.newDead
        THEN Abort(s1, "ApplyDamage: target is already dead")
        ELSE [s1 EXCEPT !.p.newDead = @ \cup {target}]

\* The low-level ApplyDamage: applies dmg of attacker to target.
ApplyDamageLow(cfg, s, dmg, attacker, pb, attackerMod, target, roll) ==
    LET d == UpdatedDamage(cfg, s, dmg, pb, attackerMod, target, roll)
        hp == s.db.hp[target]
        done == ComputeDamage(d, pb, hp)
        newHp == [hp EXCEPT !.shield = @ - done.shield,
                            !.armour = @ - done.armour]
        dl1 == IF attacker[1] = TYPE_CHARACTER /\ target[1] = TYPE_CHARACTER
               THEN AddEntry(s.db.dl, target[2], attacker[2], s.p.height)
               ELSE s.db.dl
        s1 == [s EXCEPT !.db.dl = dl1, !.db.hp[target] = newHp]
        dies == done.shield + done.armour > 0
                /\ newHp.armour + newHp.shield = 0
    IN  IF s.p.abort # "" THEN s
        ELSE IF IsNoCombat(s.db.pos[target])
        THEN Abort(s, "ApplyDamage: target in no-combat zone")
        ELSE IF d < 0 THEN Abort(s, "ApplyDamage: negative damage")
        ELSE IF d = 0 THEN s
        ELSE IF ComputeDamageCheckFails(d, pb, hp)
        THEN Abort(s, "ComputeDamage: CHECK failed")
        ELSE IF ~dies THEN s1
        ELSE IF hp.mhp.shield >= 1000 \/ hp.mhp.armour >= 1000
        THEN Abort(s1, "ApplyDamage: partial HP are full")
        ELSE IF target \in s.p.newDead
        THEN Abort(s1, "ApplyDamage: target is already dead")
        ELSE [s1 EXCEPT !.p.newDead = @ \cup {target}]

\* The high-level ApplyDamage for real attacks: also records drained HP
\* for a gain_hp attack.
ApplyDamage(cfg, s, dmg, attacker, attack, attackerMod, target, roll) ==
    LET done == DamageDone(cfg, s, dmg, attack.damage, attackerMod, target, roll)
        s1 == ApplyDamageLow(cfg, s, dmg, attacker, attack.damage,
                             attackerMod, target, roll)
        inner == MapGet(s1.p.gainHpDrained, target, EmptyFn)
        old == MapGet(inner, attacker, ZeroHp)
        drained == [shield |-> old.shield + done.shield,
                    armour |-> old.armour + done.armour]
        s2 == Logged(s1, [kind |-> IF attack.gain_hp THEN "gain" ELSE "normal",
                          attacker |-> attacker, target |-> target,
                          done |-> done])
    IN  IF s1.p.abort # "" THEN s1
        ELSE IF ~attack.gain_hp THEN s2
        ELSE [s2 EXCEPT !.p.gainHpDrained =
                  MapPut(@, target, MapPut(inner, attacker, drained))]

\* Sum of two StatModifier protos / effects.
AddFx(a, b) ==
    [speed |-> a.speed + b.speed, range |-> a.range + b.range,
     hit_chance |-> a.hit_chance + b.hit_chance,
     shield_regen |-> a.shield_regen + b.shield_regen,
     mentecon |-> a.mentecon \/ b.mentecon]

\* ApplyEffects: accumulates the attack's effects for target in newEffects.
ApplyEffects(s, attack, target) ==
    IF s.p.abort # "" THEN s
    ELSE IF IsNoCombat(s.db.pos[target])
    THEN Abort(s, "ApplyEffects: target in no-combat zone")
    ELSE IF ~attack.has_effects THEN s
    ELSE [s EXCEPT !.p.newEffects =
              MapPut(@, target, AddFx(MapGet(@, target, NoFx), attack.effects))]

AttackModifier_Current(cfg, s, f) == FighterModifier(cfg, s.db, f)

\* modifiers.at (f): the modifier DealDamage uses for attacker f.
AttackModifier(cfg, s, f) == s.p.modifiers[f]

\* Whether DealDamage processes attack of f in the pass forGainHp: the pass
\* matches and, for an attack with range, the target is within range.
AttackApplies(cfg, s, f, attack, mod, forGainHp) ==
    /\ attack.gain_hp = forGainHp
    /\ attack.range # Unset =>
          /\ s.db.target[f] # NoTarget
          /\ DistanceL1(s.db.pos[f], s.db.pos[s.db.target[f]])
                <= StatApply(mod.range, attack.range)

AttackTargets_AroundAttacker(cfg, s, f, attack, mod) ==
    IF attack.area # Unset
    THEN KeySeq(ProcessCombatTargets(cfg, s.db, f, s.db.pos[f],
                                     StatApply(mod.range, attack.area),
                                     ~attack.friendlies))
    ELSE <<s.db.target[f]>>

\* The fighters an attack of f is applied to, in processing order.
AttackTargets(cfg, s, f, attack, mod) ==
    IF attack.area # Unset
    THEN LET centre == IF attack.range # Unset
                       THEN s.db.pos[s.db.target[f]]
                       ELSE s.db.pos[f]
         IN  KeySeq(ProcessCombatTargets(cfg, s.db, f, centre,
                                         StatApply(mod.range, attack.area),
                                         ~attack.friendlies))
    ELSE <<s.db.target[f]>>

\* ApplyDamage and ApplyEffects for each of the targets ts of one attack.
RECURSIVE ApplyToTargets(_, _, _, _, _, _, _, _)
ApplyToTargets(cfg, s, f, attack, dmg, mod, ts, hits) ==
    IF ts = <<>> THEN s
    ELSE LET t == Head(ts)
             s1 == ApplyDamage(cfg, s, dmg, f, attack, mod, t, hits[t])
         IN  ApplyToTargets(cfg, ApplyEffects(s1, attack, t), f, attack, dmg,
                            mod, Tail(ts), hits)

\* The body of DealDamage's loop for one attack; offset and hits are the
\* values drawn from the random stream for it.
DealAttack(cfg, s, f, attack, mod, forGainHp, offset, hits) ==
    IF s.p.abort # "" \/ ~AttackApplies(cfg, s, f, attack, mod, forGainHp)
    THEN s
    ELSE IF attack.has_damage
            /\ StatApply(mod.damage, attack.damage.min)
                  > StatApply(mod.damage, attack.damage.max)
    THEN Abort(s, "RollAttackDamage: min above max")
    ELSE IF attack.area = Unset
            /\ (s.db.target[f] = NoTarget \/ attack.friendlies)
    THEN Abort(s, "DealDamage: attack without area needs a target")
    ELSE LET dmg == IF attack.has_damage
                    THEN RollAttackDamage(attack.damage, mod.damage, offset)
                    ELSE 0
         IN  ApplyToTargets(cfg, s, f, attack, dmg, mod,
                            AttackTargets(cfg, s, f, attack, mod), hits)

RECURSIVE DealAttacks(_, _, _, _, _, _, _)
DealAttacks(cfg, s, f, mod, forGainHp, r, i) ==
    IF i > Len(cfg.cd[f].attacks) THEN s
    ELSE DealAttacks(cfg,
                     DealAttack(cfg, s, f, cfg.cd[f].attacks[i], mod,
                                forGainHp, r.dmg[i], r.hit[i]),
                     f, mod, forGainHp, r, i + 1)

\* DealDamage: all attacks of fighter f with gain_hp equal to forGainHp;
\* r holds the random draws of the call.
DealDamage(cfg, s, f, forGainHp, r) ==
    IF s.p.abort # "" THEN s
    ELSE IF IsNoCombat(s.db.pos[f])
    THEN Abort(s, "DealDamage: attacker in no-combat zone")
    ELSE IF s.db.target[f] # NoTarget /\ ~s.db.exists[s.db.target[f]]
    THEN Abort(s, "DealDamage: target does not exist")
    ELSE IF s.db.target[f] = NoTarget /\ ~s.db.friendly[f]
    THEN Abort(s, "DealDamage: neither target nor friendly targets")
    ELSE IF f \notin DOMAIN s.p.modifiers
    THEN Abort(s, "DealDamage: no modifier")
    ELSE LET mod == AttackModifier(cfg, s, f)
             s1 == [s EXCEPT !.p.used = MapPut(@, f, [mod |-> mod,
                                                      hp |-> s.db.hp[f]])]
         IN  DealAttacks(cfg, s1, f, mod, forGainHp, r, 1)

\* The random draws a DealDamage call can make: a damage offset for each
\* attack that is processed and has damage, and a hit roll for each of its
\* targets whose hit chance is strictly between 0 and 100.
DealRolls(cfg, s, f, forGainHp) ==
    LET atts == cfg.cd[f].attacks
        n == Len(atts)
        mod == AttackModifier(cfg, s, f)
        applies(i) == AttackApplies(cfg, s, f, atts[i], mod, forGainHp)
        offs(i) == IF applies(i) /\ atts[i].has_damage
                   THEN RollOffsets(atts[i].damage, mod.damage)
                   ELSE {0}
        rolled(i, t) ==
            /\ applies(i)
            /\ \E k \in 1..Len(AttackTargets(cfg, s, f, atts[i], mod)) :
                  AttackTargets(cfg, s, f, atts[i], mod)[k] = t
            /\ t \notin s.p.alreadyDead
            /\ HitChance(cfg, t, atts[i].damage, mod.hitChance) > 0
            /\ HitChance(cfg, t, atts[i].damage, mod.hitChance) < 100
    IN  {[dmg |-> d, hit |-> h] :
            d \in Choices([i \in 1..n |-> offs(i)]),
            h \in Choices([i \in 1..n |->
                     KeyChoices(LAMBDA t : IF rolled(i, t) THEN BOOLEAN
                                           ELSE {TRUE})])}

\* Process, first loop: the modifier of every fighter with a target is
\* computed before any damage is dealt.
SnapshotModifiers(cfg, s) ==
    [s EXCEPT !.p.modifiers =
        [f \in WithTarget(s.db) |-> FighterModifier(cfg, s.db, f)]]

\* The <<target, attacker>> entries of gainHpDrained in iteration order.
DrainEntries(g) ==
    LET ts == KeySeq(DOMAIN g)
        RECURSIVE Flat(_)
        Flat(i) ==
            IF i > Len(ts) THEN <<>>
            ELSE LET as == KeySeq(DOMAIN g[ts[i]])
                 IN  [j \in 1..Len(as) |-> <<ts[i], as[j]>>] \o Flat(i + 1)
    IN  Flat(1)

GainedFrom_Always(s, t, a) ==
    [armour |-> s.p.gainHpDrained[t][a].armour,
     shield |-> s.p.gainHpDrained[t][a].shield]

\* What attacker a gains from the HP it drained from target t: all of it if
\* the target has HP of the type left or a is the only one that drained t.
GainedFrom(s, t, a) ==
    LET tHp == s.db.hp[t]
        d == s.p.gainHpDrained[t][a]
        single == Cardinality(DOMAIN s.p.gainHpDrained[t]) = 1
    IN  [armour |-> IF tHp.armour > 0 \/ single THEN d.armour ELSE 0,
         shield |-> IF tHp.shield > 0 \/ single THEN d.shield ELSE 0]

\* Process, reconciliation of gained HP after the gain_hp attacks.
Reconcile(cfg, s) ==
    LET g == s.p.gainHpDrained
        es == DrainEntries(g)
        bad == SelectSeq(es, LAMBDA e : g[e[1]][e[2]].armour # 0
                                         \/ ~(g[e[1]][e[2]].shield > 0))
        attackers == {e[2] : e \in {es[i] : i \in 1..Len(es)}}
        total(a) ==
            LET ts == SelectSeq(KeySeq(DOMAIN g), LAMBDA t : a \in DOMAIN g[t])
            IN  [armour |-> SumSeq([i \in 1..Len(ts) |->
                                       GainedFrom(s, ts[i], a).armour]),
                 shield |-> SumSeq([i \in 1..Len(ts) |->
                                       GainedFrom(s, ts[i], a).shield])]
        gaining == {a \in attackers : total(a).armour > 0 \/ total(a).shield > 0}
    IN  IF s.p.abort # "" THEN s
        ELSE IF \E t \in DOMAIN g : ~s.db.exists[t]
        THEN Abort(s, "Process: drained target does not exist")
        ELSE IF bad # <<>>
        THEN Abort(s, IF g[bad[1][1]][bad[1][2]].armour # 0
                      THEN "Process: armour drain is not supported"
                      ELSE "Process: drained shield is not positive")
        ELSE Logged([s EXCEPT !.p.gainedHp = [a \in gaining |-> total(a)]],
                    [kind |-> "reconcile", attacker |-> NoTarget,
                     target |-> NoTarget, done |-> ZeroHp])

CascadeMerge_KeepNewDead(s) ==
    IF s.p.abort # "" THEN s
    ELSE IF s.p.newDead \cap s.p.alreadyDead # {}
    THEN Abort(s, "Process: target was already dead before")
    ELSE [s EXCEPT !.p.alreadyDead = @ \cup s.p.newDead,
                   !.p.toProcess = KeySeq(s.p.newDead)]

\* Process, head of the self-destruct loop: the newly dead are merged into
\* alreadyDead and become the fighters whose self-destructs are run.
CascadeMerge(s) ==
    IF s.p.abort # "" THEN s
    ELSE IF s.p.newDead \cap s.p.alreadyDead # {}
    THEN Abort(s, "Process: target was already dead before")
    ELSE [s EXCEPT !.p.alreadyDead = @ \cup s.p.newDead,
                   !.p.toProcess = KeySeq(s.p.newDead),
                   !.p.newDead = {}]

\* The self-destruct damage of one self-destruct sd of f to targets ts.
RECURSIVE SelfDestructTargets(_, _, _, _, _, _, _, _)
SelfDestructTargets(cfg, s, f, sd, dmg, mod, ts, hits) ==
    IF ts = <<>> THEN s
    ELSE LET t == Head(ts)
             done == DamageDone(cfg, s, dmg, sd.damage, mod, t, hits[t])
             s1 == ApplyDamageLow(cfg, s, dmg, f, sd.damage, mod, t, hits[t])
             s2 == IF s1.p.abort # "" THEN s1
                   ELSE Logged(s1, [kind |-> "selfdestruct", attacker |-> f,
                                    target |-> t, done |-> done])
         IN  SelfDestructTargets(cfg, s2, f, sd, dmg, mod, Tail(ts), hits)

\* The fighters hit by self-destruct sd of f, in processing order.
SelfDestructArea(cfg, s, f, sd, mod) ==
    KeySeq(ProcessCombatTargets(cfg, s.db, f, s.db.pos[f],
                                StatApply(mod.range, sd.area), TRUE))

RECURSIVE SelfDestructLoop(_, _, _, _, _, _)
SelfDestructLoop(cfg, s, f, mod, r, j) ==
    IF j > Len(cfg.cd[f].self_destructs) \/ s.p.abort # "" THEN s
    ELSE LET sd == cfg.cd[f].self_destructs[j]
         IN  IF StatApply(mod.damage, sd.damage.min)
                   > StatApply(mod.damage, sd.damage.max)
             THEN Abort(s, "RollAttackDamage: min above max")
             ELSE SelfDestructLoop(cfg,
                      SelfDestructTargets(cfg, s, f, sd,
                          RollAttackDamage(sd.damage, mod.damage, r.dmg[j]),
                          mod, SelfDestructArea(cfg, s, f, sd, mod), r.hit[j]),
                      f, mod, r, j + 1)

\* ProcessSelfDestructs for killed fighter f: the modifier is recomputed
\* from its current (zero) HP.
ProcessSelfDestructs(cfg, s, f, r) ==
    IF s.p.abort # "" THEN s
    ELSE IF ~s.db.exists[f]
    THEN Abort(s, "ProcessSelfDestructs: fighter does not exist")
    ELSE IF IsNoCombat(s.db.pos[f])
    THEN Abort(s, "ProcessSelfDestructs: fighter in no-combat zone")
    ELSE IF s.db.hp[f].armour # 0 \/ s.db.hp[f].shield # 0
    THEN Abort(s, "ProcessSelfDestructs: killed fighter has HP left")
    ELSE SelfDestructLoop(cfg, s, f, FighterModifier(cfg, s.db, f), r, 1)

\* The random draws a ProcessSelfDestructs call can make.
SelfDestructRolls(cfg, s, f) ==
    LET sds == cfg.cd[f].self_destructs
        n == Len(sds)
        mod == FighterModifier(cfg, s.db, f)
        rolled(j, t) ==
            /\ t \in ProcessCombatTargets(cfg, s.db, f, s.db.pos[f],
                                          StatApply(mod.range, sds[j].area), TRUE)
            /\ t \notin s.p.alreadyDead
            /\ HitChance(cfg, t, sds[j].damage, mod.hitChance) > 0
            /\ HitChance(cfg, t, sds[j].damage, mod.hitChance) < 100
    IN  {[dmg |-> d, hit |-> h] :
            d \in Choices([j \in 1..n |->
                     RollOffsets(sds[j].damage, mod.damage)]),
            h \in Choices([j \in 1..n |->
                     KeyChoices(LAMBDA t : IF rolled(j, t) THEN BOOLEAN
                                           ELSE {TRUE})])}

CreditGainedHp_AlsoDead(cfg, s) ==
    LET newHp(a) ==
            [s.db.hp[a] EXCEPT
                !.armour = Min(@ + s.p.gainedHp[a].armour, cfg.max_hp[a].armour),
                !.shield = Min(@ + s.p.gainedHp[a].shield, cfg.max_hp[a].shield)]
    IN  IF s.p.abort # "" THEN s
        ELSE Logged([s EXCEPT !.db.hp = [a \in Keys |->
                                   IF a \in DOMAIN s.p.gainedHp THEN newHp(a)
                                   ELSE @[a]]],
                    [kind |-> "credit", attacker |-> NoTarget,
                     target |-> NoTarget, done |-> ZeroHp])

\* Process, crediting of gained HP: everyone who is not dead gets the HP
\* gained, up to the maximum HP.
CreditGainedHp(cfg, s) ==
    LET credited == {a \in DOMAIN s.p.gainedHp : a \notin s.p.alreadyDead}
        newHp(a) ==
            [s.db.hp[a] EXCEPT
                !.armour = Min(@ + s.p.gainedHp[a].armour, cfg.max_hp[a].armour),
                !.shield = Min(@ + s.p.gainedHp[a].shield, cfg.max_hp[a].shield)]
    IN  IF s.p.abort # "" THEN s
        ELSE IF \E a \in credited : ~s.db.exists[a]
        THEN Abort(s, "Process: gaining fighter does not exist")
        ELSE Logged([s EXCEPT !.db.hp = [a \in Keys |->
                                   IF a \in credited THEN newHp(a) ELSE @[a]]],
                    [kind |-> "credit", attacker |-> NoTarget,
                     target |-> NoTarget, done |-> ZeroHp])

SwapEffects_KeepOld(s) ==
    IF s.p.abort # "" THEN s
    ELSE [s EXCEPT !.db.effects =
              [f \in Keys |-> AddFx(@[f], MapGet(s.p.newEffects, f, NoFx))]]

\* Process, swap of the combat effects: all previous effects are cleared
\* and the ones accumulated in newEffects are written.
SwapEffects(s) ==
    IF s.p.abort # "" THEN s
    ELSE [s EXCEPT !.db.effects =
              [f \in Keys |-> MapGet(s.p.newEffects, f, NoFx)]]

(***************************************************************************)
(* Target finding.                                                         *)
(***************************************************************************)
\* CombatEntity::NO_ATTACKS.
NO_ATTACKS == -1

\* CombatEntity::GetAttackRange: the largest range (or area, for an attack
\* without range) of the fighter's attacks on friendlies or on enemies.
GetAttackRange(cd, friendly) ==
    LET as == SelectSeq(cd.attacks, LAMBDA a : a.friendlies = friendly)
        reach(a) == IF a.range # Unset THEN a.range ELSE a.area
        RECURSIVE MaxReach(_)
        MaxReach(i) == IF i > Len(as) THEN NO_ATTACKS
                       ELSE Max(reach(as[i]), MaxReach(i + 1))
    IN  MaxReach(1)

EnemyTargets_AnyInRange(cfg, db, f) ==
    LET range == GetAttackRange(cfg.cd[f], FALSE)
        mod == FighterModifier(cfg, db, f)
    IN  IF range = NO_ATTACKS \/ IsNoCombat(db.pos[f]) THEN {}
        ELSE ProcessCombatTargets(cfg, db, f, db.pos[f],
                                  StatApply(mod.range, range), TRUE)

\* SelectNormalTarget: the closest enemies within the modified range.
EnemyTargets(cfg, db, f) ==
    LET range == GetAttackRange(cfg.cd[f], FALSE)
        mod == FighterModifier(cfg, db, f)
        found == ProcessCombatTargets(cfg, db, f, db.pos[f],
                                      StatApply(mod.range, range), TRUE)
        dist(t) == DistanceL1(db.pos[f], db.pos[t])
    IN  IF range = NO_ATTACKS \/ IsNoCombat(db.pos[f]) THEN {}
        ELSE {t \in found : \A u \in found : dist(t) <= dist(u)}

\* SelectFriendlyTargets: whether a friendly is in range of a friendly
\* attack.
HasFriendlyTarget(cfg, db, f) ==
    LET range == GetAttackRange(cfg.cd[f], TRUE)
        mod == FighterModifier(cfg, db, f)
    IN  /\ range # NO_ATTACKS
        /\ ~IsNoCombat(db.pos[f])
        /\ ProcessCombatTargets(cfg, db, f, db.pos[f],
                                StatApply(mod.range, range), FALSE) # {}

\* FighterTable::ProcessWithAttacks: the fighters that have attacks.
WithAttacks(cfg, db) == {f \in Keys : db.exists[f] /\ cfg.cd[f].attacks # <<>>}

\* The target assignments FindCombatTargets can end with: Finalise picks
\* one of the closest enemies with NextInt, or clears the target.
TargetChoices(cfg, db) ==
    {tg \in [Keys -> Keys \cup {NoTarget}] :
        \A f \in Keys :
            IF f \notin WithAttacks(cfg, db) THEN tg[f] = db.target[f]
            ELSE IF EnemyTargets(cfg, db, f) = {} THEN tg[f] = NoTarget
            ELSE tg[f] \in EnemyTargets(cfg, db, f)}

\* FindCombatTargets with the targets tg picked.
FindCombatTargetsWith(cfg, db, tg) ==
    [db EXCEPT !.target = tg,
               !.friendly = [f \in Keys |->
                                IF f \in WithAttacks(cfg, db)
                                THEN HasFriendlyTarget(cfg, db, f)
                                ELSE @[f]]]

(***************************************************************************)
(* Fame, kills and regeneration.                                           *)
(***************************************************************************)
\* The attackers the damage lists hold for victim, which is what
\* FameUpdater::UpdateForKill reads for a killed character.
DamageListAttackers(dl, victim) ==
    IF victim[1] # TYPE_CHARACTER THEN {}
    ELSE {e.attacker : e \in {x \in dl : x.victim = victim[2]}}

\* DamageLists::RemoveOld: drops the entries older than n blocks.
RemoveOld(dl, height, n) == {e \in dl : e.height + n > height}

\* DamageLists::RemoveCharacter: drops all entries of the character.
RemoveCharacter(dl, id) == {e \in dl : e.victim # id /\ e.attacker # id}

\* KillProcessor::DeleteCharacter.
DeleteCharacter(db, id) ==
    [db EXCEPT !.dl = RemoveCharacter(@, id),
               !.exists[<<TYPE_CHARACTER, id>>] = FALSE]

\* KillProcessor::ProcessCharacter for a character killed in combat.
ProcessCharacter(db, id) == DeleteCharacter(db, id)

\* KillProcessor::ProcessBuilding for a destroyed building.
ProcessBuilding(db, id) == [db EXCEPT !.exists[<<TYPE_BUILDING, id>>] = FALSE]

\* ProcessKills, the body of the loop for dead fighter k.
ProcessKill(db, k) ==
    IF k[1] = TYPE_CHARACTER THEN ProcessCharacter(db, k[2])
    ELSE ProcessBuilding(db, k[2])

\* The values of an unsigned are 0..UnsignedModulus-1; the modulus stands
\* for 2^32, scaled down so that the wrap-around can be reached.
UnsignedModulus == 4096

Wrap(n) == n % UnsignedModulus

\* RegenerateHpType without the cap at max.
RegenerateHpType_NoCap(max, mhpRate, oldCur, oldMilli) ==
    LET sum == Wrap(oldMilli + mhpRate)
        cur == Wrap(oldCur + (sum \div 1000))
        milli == sum % 1000
    IN  [cur |-> cur, milli |-> milli,
         changed |-> cur # oldCur \/ milli # oldMilli]

\* RegenerateHpType: the new full and milli HP of one type, and what the
\* function returns.
RegenerateHpType(max, mhpRate, oldCur, oldMilli) ==
    LET sum == Wrap(oldMilli + mhpRate)
        cur == Wrap(oldCur + (sum \div 1000))
        capped == cur >= max
        newCur == IF capped THEN max ELSE cur
        newMilli == IF capped THEN 0 ELSE sum % 1000
    IN  [cur |-> newCur, milli |-> newMilli,
         changed |-> newCur # oldCur \/ newMilli # oldMilli]

\* The CHECK at the end of RegenerateHpType.
RegenResultCheckFails(max, mhpRate, oldCur, oldMilli) ==
    LET new == RegenerateHpType(max, mhpRate, oldCur, oldMilli)
    IN  ~(new.cur > oldCur \/ (new.cur = oldCur /\ new.milli >= oldMilli))

\* The CHECK at the head of RegenerateHpType.
RegenPrecondition(max, oldCur, oldMilli) ==
    oldCur < max \/ (oldCur = max /\ oldMilli = 0)

\* RegenerateFighterHP: the HP of fighter f after regeneration.
RegenerateFighterHP(cfg, db, f) ==
    LET hp == db.hp[f]
        a == RegenerateHpType(cfg.max_hp[f].armour, cfg.regeneration_mhp[f].armour,
                              hp.armour, hp.mhp.armour)
        rate == StatApply(db.effects[f].shield_regen,
                          cfg.regeneration_mhp[f].shield)
        sh == RegenerateHpType(cfg.max_hp[f].shield, rate,
                               hp.shield, hp.mhp.shield)
    IN  [shield |-> sh.cur, armour |-> a.cur,
         mhp |-> [shield |-> sh.milli, armour |-> a.milli]]

\* FighterTable::ProcessForRegen: the fighters flagged canregen, i.e. those
\* with a regeneration rate for a type of HP that is not full.
ProcessForRegen(cfg, db) ==
    {f \in Keys :
        /\ db.exists[f]
        /\ \/ cfg.regeneration_mhp[f].shield > 0
              /\ db.hp[f].shield < cfg.max_hp[f].shield
           \/ cfg.regeneration_mhp[f].armour > 0
              /\ db.hp[f].armour < cfg.max_hp[f].armour}

\* Whether a CHECK of RegenerateHpType fails for a fighter to regenerate.
RegenCheckFails(cfg, db) ==
    \E f \in ProcessForRegen(cfg, db) :
        \/ ~RegenPrecondition(cfg.max_hp[f].armour, db.hp[f].armour,
                              db.hp[f].mhp.armour)
        \/ ~RegenPrecondition(cfg.max_hp[f].shield, db.hp[f].shield,
                              db.hp[f].mhp.shield)

\* RegenerateHP.
RegenerateHP(cfg, db) ==
    [db EXCEPT !.hp = [f \in Keys |->
                          IF f \in ProcessForRegen(cfg, db)
                          THEN RegenerateFighterHP(cfg, db, f)
                          ELSE @[f]]]

(***************************************************************************)
(* KillProcessor::ProcessBuilding, the drop loop: the combined inventory   *)
(* is a proto map without a defined iteration order; it is copied into a   *)
(* std::map (sorted by item name) and one ProbabilityRoll is made per      *)
(* entry.  Item names are numbered in ascending name order.                *)
(***************************************************************************)
BUILDING_INVENTORY_DROP_PERCENT == 30

Items == 1..NumItems

\* All orders in which the entries of set S can be iterated.
PermSeqs(S) ==
    {s \in [1..Cardinality(S) -> S] :
        \A i, j \in 1..Cardinality(S) : i # j => s[i] # s[j]}

\* The entries of a sequence of distinct entries in ascending order.
SortedSeq(seq) ==
    LET S == {seq[i] : i \in 1..Len(seq)}
    IN  CHOOSE s \in PermSeqs(S) : \A i, j \in 1..Len(s) : i < j => s[i] < s[j]

\* The loop as it would run over the proto map directly.
InvItems_Unsorted(protoInvMap) == protoInvMap

\* invItems: the std::map built from the proto map's iteration order.
InvItems(protoInvMap) == SortedSeq(protoInvMap)

\* The drop loop dropping one unit of an entry whose roll succeeds.
DropEntry_OneUnit(loot, item, qty, roll) ==
    IF ~roll THEN loot ELSE [loot EXCEPT ![item] = @ + 1]

\* One iteration of the drop loop for entry item with quantity qty, the
\* ProbabilityRoll returning roll.
DropEntry(loot, item, qty, roll) ==
    IF ~roll THEN loot ELSE [loot EXCEPT ![item] = @ + qty]

NoLoot == [i \in Items |-> 0]

DetRunIdle == [started |-> FALSE, items |-> <<>>, next |-> 1,
               loot |-> NoLoot, draws |-> 0]

NoDone == [called |-> FALSE, shield |-> 0, armour |-> 0]

CdIdle ==
    /\ cdArgs = [dmg |-> 0, shield_percent |-> Unset, armour_percent |-> Unset,
                 shield |-> 0, armour |-> 0]
    /\ cdDone = NoDone

DetIdle ==
    /\ detIn = [inv |-> NoLoot, stream |-> [i \in Items |-> FALSE]]
    /\ detRun = [e \in {1, 2} |-> DetRunIdle]

BlkIdle ==
    /\ roConfig = <<>>
    /\ database = <<>>
    /\ proc = <<>>
    /\ run = <<>>
    /\ obs = <<>>

OrdIdle ==
    /\ ordIn = <<>>
    /\ ordOut = <<>>

FnIdle ==
    /\ fnArgs = <<>>
    /\ fnOut = <<>>

MapIdle ==
    /\ mapCfg = <<>>
    /\ mapSt = <<>>

KillIdle ==
    /\ world = <<>>
    /\ kill = <<>>

BldIdle ==
    /\ bworld = <<>>
    /\ bkill = <<>>

DynIdle ==
    /\ dynIn = <<>>
    /\ dynSt = <<>>

EntIdle ==
    /\ entCfg = <<>>
    /\ entSt = <<>>

BusyIdle == busySt = <<>>

AccIdle == accSt = <<>>

(***************************************************************************)
(* Specification SpecDet: the same destroyed building is processed by two  *)
(* executions from the same state and random stream; each of them finds    *)
(* the proto map in an iteration order of its own.                         *)
(***************************************************************************)
DetInit ==
    /\ CdIdle
    /\ BlkIdle
    /\ OrdIdle
    /\ FnIdle
    /\ MapIdle
    /\ KillIdle
    /\ BldIdle
    /\ DynIdle
    /\ EntIdle
    /\ BusyIdle
    /\ AccIdle
    /\ detIn \in [inv : [Items -> 0..MaxQty], stream : [Items -> BOOLEAN]]
    /\ detRun = [e \in {1, 2} |-> DetRunIdle]

\* Execution e reaches the loop: totalInv.GetFungible () is iterated in
\* hash order h and copied to invItems.
DetCopy(e) ==
    /\ ~detRun[e].started
    /\ \E h \in PermSeqs({i \in Items : detIn.inv[i] > 0}) :
          detRun' = [detRun EXCEPT ![e].started = TRUE,
                                   ![e].items = InvItems(h)]
    /\ UNCHANGED <<detIn, cdVars, blkVars, ordVars, fnVars, mapVars, killVars,
                   bldVars, dynVars, entVars, busyVars, accVars>>

\* Execution e processes the next entry of invItems.
DetDrop(e) ==
    /\ detRun[e].started
    /\ detRun[e].next <= Len(detRun[e].items)
    /\ LET r == detRun[e]
           item == r.items[r.next]
           roll == detIn.stream[r.draws + 1]
       IN  detRun' = [detRun EXCEPT
                         ![e].loot = DropEntry(r.loot, item, detIn.inv[item], roll),
                         ![e].draws = r.draws + 1,
                         ![e].next = r.next + 1]
    /\ UNCHANGED <<detIn, cdVars, blkVars, ordVars, fnVars, mapVars, killVars,
                   bldVars, dynVars, entVars, busyVars, accVars>>

DetNext == \E e \in {1, 2} : DetCopy(e) \/ DetDrop(e)

SpecDet == DetInit /\ [][DetNext]_vars

DetFinished(e) ==
    detRun[e].started /\ detRun[e].next > Len(detRun[e].items)

PercentValues == {Unset, 0, 30, 50, 100, 150, 200}

CdInit ==
    /\ DetIdle
    /\ BlkIdle
    /\ OrdIdle
    /\ FnIdle
    /\ MapIdle
    /\ KillIdle
    /\ BldIdle
    /\ DynIdle
    /\ EntIdle
    /\ BusyIdle
    /\ AccIdle
    /\ cdArgs \in [dmg : 0..MaxDmg,
                   shield_percent : PercentValues,
                   armour_percent : PercentValues,
                   shield : 0..MaxHp,
                   armour : 0..MaxHp]
    /\ cdDone = NoDone

CallComputeDamage ==
    /\ ~cdDone.called
    /\ ~ComputeDamageCheckFails(cdArgs.dmg, cdArgs, cdArgs)
    /\ LET done == ComputeDamage(cdArgs.dmg, cdArgs, cdArgs)
       IN  cdDone' = [called |-> TRUE, shield |-> done.shield,
                      armour |-> done.armour]
    /\ UNCHANGED <<cdArgs, detVars, blkVars, ordVars, fnVars, mapVars, killVars,
                   bldVars, dynVars, entVars, busyVars, accVars>>

CdNext == CallComputeDamage

SpecCD == CdInit /\ [][CdNext]_vars

\* The base damage that remains after the shield part, as the claim uses it.
CdRemaining ==
    cdArgs.dmg - (IF cdDone.shield > 0
                  THEN (cdDone.shield * 100) \div ShieldPercent(cdArgs)
                  ELSE 0)

\* C10 (as stated): for every damage roll d, percentages and current HP,
\* done.shield <= min(d*shield_percent/100, shield),
\* done.armour <= min(remaining*armour_percent/100, armour) and
\* done.shield + done.armour <= d.
C10_DamageBounds ==
    cdDone.called =>
        /\ cdDone.shield <= Min((cdArgs.dmg * ShieldPercent(cdArgs)) \div 100,
                                cdArgs.shield)
        /\ cdDone.armour <= Min((CdRemaining * ArmourPercent(cdArgs)) \div 100,
                                cdArgs.armour)
        /\ cdDone.shield + cdDone.armour <= cdArgs.dmg

(***************************************************************************)
(* The fighters of the modelled world.  Two characters and a building      *)
(* stand on neighbouring tiles; each has one of the loadouts below.        *)
(***************************************************************************)
NoDamage == [min |-> 0, max |-> 0, weapon_size |-> Unset,
             shield_percent |-> Unset, armour_percent |-> Unset]

\* A plain attack on the target: 1 to 2 damage at range 2.
Gun ==
    [range |-> 2, area |-> Unset, has_damage |-> TRUE,
     damage |-> [NoDamage EXCEPT !.min = 1, !.max = 2],
     gain_hp |-> FALSE, friendlies |-> FALSE, has_effects |-> FALSE,
     effects |-> NoFx]

\* A syphon: drains 1 shield HP from the target and never touches armour.
Syphon ==
    [Gun EXCEPT !.damage = [NoDamage EXCEPT !.min = 1, !.max = 1,
                                            !.shield_percent = 100,
                                            !.armour_percent = 0],
                !.gain_hp = TRUE]

NoCombatData ==
    [attacks |-> <<>>, low_hp_boosts |-> <<>>, self_destructs |-> <<>>,
     target_size |-> Unset, hit_chance_modifier |-> 0,
     received_damage_modifier |-> 0]

CdGun == [NoCombatData EXCEPT !.attacks = <<Gun>>]

\* A vehicle with a syphon and a gun.
CdSyphon == [NoCombatData EXCEPT !.attacks = <<Gun, Syphon>>]

\* A vehicle with a gun, a low-HP damage boost and a self-destruct.
CdBomber ==
    [NoCombatData EXCEPT
        !.attacks = <<Gun>>,
        !.low_hp_boosts = <<[max_hp_percent |-> 50, damage |-> 100,
                             range |-> 0]>>,
        !.self_destructs = <<[area |-> 1,
                              damage |-> [NoDamage EXCEPT !.min = 2,
                                                          !.max = 2]]>>]

IsCharacter(k) == k[1] = TYPE_CHARACTER

\* The fighters' factions when solo stands alone against the other two.
FactionsWith(solo) == [k \in Keys |-> IF k = solo THEN "g" ELSE "r"]

\* The loadouts of the two characters and the building.
LoadoutsOf(c2, c3, b1) ==
    [k \in Keys |-> IF k = <<TYPE_CHARACTER, 2>> THEN c2
                    ELSE IF k = <<TYPE_CHARACTER, 3>> THEN c3
                    ELSE b1]

\* Two syphons against an armed building; a syphon and an armed building
\* against a bomber; two bombers next to a defenceless building.
Scenarios ==
    {[faction |-> FactionsWith(<<TYPE_BUILDING, 1>>),
      cd |-> LoadoutsOf(CdSyphon, CdSyphon, CdGun)],
     [faction |-> FactionsWith(<<TYPE_CHARACTER, 3>>),
      cd |-> LoadoutsOf(CdSyphon, CdBomber, CdGun)],
     [faction |-> FactionsWith(<<TYPE_CHARACTER, 3>>),
      cd |-> LoadoutsOf(CdBomber, CdBomber, NoCombatData)]}

MaxHpOf == [shield |-> 3, armour |-> 2]

RegenRate == [shield |-> 500, armour |-> 0]

NoMhp == [shield |-> 0, armour |-> 0]

\* The HP a fighter may start the block with: full, hurt or nearly dead
\* for a character, full or hurt for the building.
StartHp ==
    {hp \in [Keys -> {[shield |-> 3, armour |-> 2, mhp |-> NoMhp],
                      [shield |-> 1, armour |-> 2,
                       mhp |-> [shield |-> 500, armour |-> 0]],
                      [shield |-> 2, armour |-> 1, mhp |-> NoMhp],
                      [shield |-> 0, armour |-> 1, mhp |-> NoMhp]}] :
        \A k \in Keys :
            IF IsCharacter(k) THEN hp[k].shield # 2 ELSE hp[k].shield >= 2}

Positions ==
    [k \in Keys |-> IF k = <<TYPE_CHARACTER, 2>> THEN <<0, 0>>
                    ELSE IF k = <<TYPE_CHARACTER, 3>> THEN <<1, 0>>
                    ELSE <<0, 1>>]

(***************************************************************************)
(* PXLogic::UpdateState and AllHpUpdates: the order of their steps.        *)
(***************************************************************************)
PhaseOrder_TargetsFirst ==
    <<"RemoveOld", "FindCombatTargets", "AllHpUpdates", "ProcessBusy",
      "DynObstacles", "ProcessAdmin", "ProcessAll", "ProcessAllMining",
      "ProcessAllMovement", "ProcessBanking", "ProcessEnterBuildings">>

PhaseOrder_MovementLast ==
    <<"RemoveOld", "AllHpUpdates", "ProcessBusy", "DynObstacles",
      "ProcessAdmin", "ProcessAll", "ProcessAllMining", "ProcessBanking",
      "ProcessEnterBuildings", "FindCombatTargets", "ProcessAllMovement">>

PhaseOrder_EntryLast ==
    <<"RemoveOld", "AllHpUpdates", "ProcessBusy", "DynObstacles",
      "ProcessAdmin", "ProcessAll", "ProcessAllMining", "ProcessAllMovement",
      "ProcessBanking", "FindCombatTargets", "ProcessEnterBuildings">>

PhaseOrder_BusyFirst ==
    <<"RemoveOld", "ProcessBusy", "AllHpUpdates", "DynObstacles",
      "ProcessAdmin", "ProcessAll", "ProcessAllMining", "ProcessAllMovement",
      "ProcessBanking", "ProcessEnterBuildings", "FindCombatTargets">>

\* The calls of PXLogic::UpdateState, in the order of the code.
PhaseOrder ==
    <<"RemoveOld", "AllHpUpdates", "ProcessBusy", "DynObstacles",
      "ProcessAdmin", "ProcessAll", "ProcessAllMining", "ProcessAllMovement",
      "ProcessBanking", "ProcessEnterBuildings", "FindCombatTargets">>

HpOrder_KillsFirst ==
    <<"DealCombatDamage", "ProcessKills", "UpdateForKill", "RegenerateHP">>

\* The calls of AllHpUpdates, in the order of the code.
HpOrder == <<"DealCombatDamage", "UpdateForKill", "ProcessKills", "RegenerateHP">>

ProcessOrder_NormalFirst ==
    <<"modifiers", "normal", "gain_hp", "reconcile", "selfdestruct", "credit",
      "effects">>

\* The stages of DamageProcessor::Process, in the order of the code.
ProcessOrder ==
    <<"modifiers", "gain_hp", "reconcile", "normal", "selfdestruct", "credit",
      "effects">>

IndexOf(seq, x) == CHOOSE i \in 1..Len(seq) : seq[i] = x

\* The element of seq that follows x, "done" after the last one.
After(seq, x) ==
    IF IndexOf(seq, x) = Len(seq) THEN "done" ELSE seq[IndexOf(seq, x) + 1]

\* Params::DamageListBlocks: the window of the damage lists.
DamageListBlocks == 2

StartHeight == 10

MaxBlocks == 2

StartRun(height) ==
    [pc |-> PhaseOrder[1], hp |-> HpOrder[1], stage |-> ProcessOrder[1],
     todo |-> <<>>, dead |-> {}, height |-> height]

StartObs(rows) ==
    [phases |-> <<>>, hpSteps |-> <<>>, start |-> rows,
     atReconcile |-> rows.hp, preCredit |-> rows.hp, fame |-> <<>>,
     regen |-> {}]

\* The run record when the current phase of UpdateState has returned.
PhaseDone(r) == [r EXCEPT !.pc = After(PhaseOrder, r.pc)]

PhaseSeen(o, r) == [o EXCEPT !.phases = Append(@, r.pc)]

\* The run record when the current step of AllHpUpdates has returned; after
\* the last one AllHpUpdates itself returns.
HpStepDone(r) ==
    IF After(HpOrder, r.hp) = "done"
    THEN PhaseDone([r EXCEPT !.hp = HpOrder[1]])
    ELSE [r EXCEPT !.hp = After(HpOrder, r.hp)]

HpStepSeen(o, r) ==
    LET o1 == [o EXCEPT !.hpSteps = Append(@, r.hp)]
    IN  IF After(HpOrder, r.hp) = "done" THEN PhaseSeen(o1, r) ELSE o1

\* Process moves on to stage st; the two damage passes start a
\* ProcessWithTarget query.
EnterStage(r, s, st) ==
    [r EXCEPT !.stage = st,
              !.todo = IF st \in {"gain_hp", "normal"}
                       THEN KeySeq(WithTarget(s.db)) ELSE <<>>]

\* Leaves the loops of Process that have nothing (more) to do.
RECURSIVE Settle(_, _)
Settle(r, s) ==
    IF \/ r.stage \in {"gain_hp", "normal"} /\ r.todo = <<>>
       \/ r.stage = "selfdestruct" /\ s.p.toProcess = <<>> /\ s.p.newDead = {}
    THEN Settle(EnterStage(r, s, After(ProcessOrder, r.stage)), s)
    ELSE r

StageDone(r, s) == Settle(EnterStage(r, s, After(ProcessOrder, r.stage)), s)

(***************************************************************************)
(* Specification Spec: the processing of blocks.  Init is the state at the *)
(* start of a block, with the targets the previous block selected.         *)
(***************************************************************************)
\* The rows before any target has been selected.
StartRows(c, hp) ==
    [exists |-> [k \in Keys |-> TRUE], pos |-> Positions, hp |-> hp,
     effects |-> [k \in Keys |-> NoFx],
     target |-> [k \in Keys |-> NoTarget],
     friendly |-> [k \in Keys |-> FALSE],
     dl |-> IF c.faction[<<TYPE_CHARACTER, 2>>] # c.faction[<<TYPE_CHARACTER, 3>>]
            THEN {[victim |-> 2, attacker |-> 3,
                   height |-> StartHeight - DamageListBlocks]}
            ELSE {}]

Init ==
    /\ CdIdle
    /\ DetIdle
    /\ OrdIdle
    /\ FnIdle
    /\ MapIdle
    /\ KillIdle
    /\ BldIdle
    /\ DynIdle
    /\ EntIdle
    /\ BusyIdle
    /\ AccIdle
    /\ \E sc \in Scenarios :
          roConfig = [faction |-> sc.faction, cd |-> sc.cd,
                      max_hp |-> [k \in Keys |-> MaxHpOf],
                      regeneration_mhp |-> [k \in Keys |-> RegenRate]]
    /\ \E hp \in StartHp :
          \E tg \in TargetChoices(roConfig, StartRows(roConfig, hp)) :
             database = FindCombatTargetsWith(roConfig,
                                              StartRows(roConfig, hp), tg)
    /\ proc = NewProcessor(StartHeight)
    /\ run = StartRun(StartHeight)
    /\ obs = StartObs(database)

S == [db |-> database, p |-> proc]

\* The state after a step of DealCombatDamage that leaves combat state s2
\* and, unless a CHECK failed in it, run record r2.
CombatStep(s2, r2, o2) ==
    /\ database' = s2.db
    /\ proc' = s2.p
    /\ run' = IF s2.p.abort # "" THEN [run EXCEPT !.pc = "aborted"] ELSE r2
    /\ obs' = o2
    /\ UNCHANGED <<roConfig, cdVars, detVars, ordVars, fnVars, mapVars, killVars,
                   bldVars, dynVars, entVars, busyVars, accVars>>

InPhase(ph) == run.pc = ph

InHpStep(st) == InPhase("AllHpUpdates") /\ run.hp = st

InStage(st) == InHpStep("DealCombatDamage") /\ run.stage = st

\* A phase of UpdateState whose effect on the fighters is not modelled.
OtherPhase(ph) ==
    /\ InPhase(ph)
    /\ run' = PhaseDone(run)
    /\ obs' = PhaseSeen(obs, run)
    /\ UNCHANGED <<roConfig, database, proc, cdVars, detVars, ordVars, fnVars, mapVars, killVars,
                   bldVars, dynVars, entVars, busyVars, accVars>>

RemoveOldEntries ==
    /\ InPhase("RemoveOld")
    /\ database' = [database EXCEPT
                       !.dl = RemoveOld(@, run.height, DamageListBlocks)]
    /\ run' = PhaseDone(run)
    /\ obs' = PhaseSeen(obs, run)
    /\ UNCHANGED <<roConfig, proc, cdVars, detVars, ordVars, fnVars, mapVars, killVars,
                   bldVars, dynVars, entVars, busyVars, accVars>>

ComputeModifiers ==
    /\ InStage("modifiers")
    /\ \E s2 \in {SnapshotModifiers(roConfig, S)} :
          CombatStep(s2, StageDone(run, s2), obs)

\* One call of DealDamage in the pass forGainHp.
DealDamageStep(forGainHp) ==
    /\ InStage(IF forGainHp THEN "gain_hp" ELSE "normal")
    /\ run.todo # <<>>
    /\ \E r \in DealRolls(roConfig, S, Head(run.todo), forGainHp) :
          \E s2 \in {DealDamage(roConfig, S, Head(run.todo), forGainHp, r)} :
             CombatStep(s2, Settle([run EXCEPT !.todo = Tail(@)], s2), obs)

DealGainHpDamage == DealDamageStep(TRUE)

DealNormalDamage == DealDamageStep(FALSE)

ReconcileGainedHp ==
    /\ InStage("reconcile")
    /\ \E s2 \in {Reconcile(roConfig, S)} :
          CombatStep(s2, StageDone(run, s2),
                     [obs EXCEPT !.atReconcile = database.hp])

MergeNewDead ==
    /\ InStage("selfdestruct")
    /\ proc.toProcess = <<>>
    /\ proc.newDead # {}
    /\ \E s2 \in {CascadeMerge(S)} :
          CombatStep(s2, Settle(run, s2), obs)

SelfDestruct ==
    /\ InStage("selfdestruct")
    /\ proc.toProcess # <<>>
    /\ LET f == Head(proc.toProcess)
           s1 == [S EXCEPT !.p.toProcess = Tail(@)]
       IN  \E r \in SelfDestructRolls(roConfig, S, f) :
              \E s2 \in {ProcessSelfDestructs(roConfig, s1, f, r)} :
                 CombatStep(s2, Settle(run, s2), obs)

CreditGained ==
    /\ InStage("credit")
    /\ \E s2 \in {CreditGainedHp(roConfig, S)} :
          CombatStep(s2, StageDone(run, s2),
                     [obs EXCEPT !.preCredit = database.hp])

UpdateEffects ==
    /\ InStage("effects")
    /\ \E s2 \in {SwapEffects(S)} :
          CombatStep(s2, StageDone(run, s2), obs)

\* DealCombatDamage returns the dead fighters.
ReturnDead ==
    /\ InStage("done")
    /\ run' = HpStepDone([run EXCEPT !.dead = proc.alreadyDead,
                                     !.stage = ProcessOrder[1]])
    /\ obs' = HpStepSeen(obs, run)
    /\ UNCHANGED <<roConfig, database, proc, cdVars, detVars, ordVars, fnVars, mapVars, killVars,
                   bldVars, dynVars, entVars, busyVars, accVars>>

\* AllHpUpdates, the loop of fame.UpdateForKill over the dead fighters; the
\* record keeps what each update found in the damage lists.
UpdateForKill ==
    /\ InHpStep("UpdateForKill")
    /\ LET ks == KeySeq(run.dead)
       IN  obs' = HpStepSeen(
                     [obs EXCEPT !.fame = @ \o
                         [i \in 1..Len(ks) |->
                             [victim |-> ks[i],
                              attackers |->
                                  DamageListAttackers(database.dl, ks[i])]]],
                     run)
    /\ run' = HpStepDone(run)
    /\ UNCHANGED <<roConfig, database, proc, cdVars, detVars, ordVars, fnVars, mapVars, killVars,
                   bldVars, dynVars, entVars, busyVars, accVars>>

RECURSIVE ProcessKillsLoop(_, _)
ProcessKillsLoop(rows, ks) ==
    IF ks = <<>> THEN rows
    ELSE ProcessKillsLoop(ProcessKill(rows, Head(ks)), Tail(ks))

\* ProcessKills over the dead fighters.
ProcessKills ==
    /\ InHpStep("ProcessKills")
    /\ database' = ProcessKillsLoop(database, KeySeq(run.dead))
    /\ run' = HpStepDone(run)
    /\ obs' = HpStepSeen(obs, run)
    /\ UNCHANGED <<roConfig, proc, cdVars, detVars, ordVars, fnVars, mapVars, killVars,
                   bldVars, dynVars, entVars, busyVars, accVars>>

RegenerateAll ==
    /\ InHpStep("RegenerateHP")
    /\ database' = RegenerateHP(roConfig, database)
    /\ run' = IF RegenCheckFails(roConfig, database)
              THEN [run EXCEPT !.pc = "aborted"]
              ELSE HpStepDone(run)
    /\ obs' = HpStepSeen([obs EXCEPT !.regen = ProcessForRegen(roConfig, database)],
                         run)
    /\ UNCHANGED <<roConfig, proc, cdVars, detVars, ordVars, fnVars, mapVars, killVars,
                   bldVars, dynVars, entVars, busyVars, accVars>>

ProcessBusy == OtherPhase("ProcessBusy")

BuildDynObstacles == OtherPhase("DynObstacles")

ProcessAdmin == OtherPhase("ProcessAdmin")

ProcessAll == OtherPhase("ProcessAll")

ProcessAllMining == OtherPhase("ProcessAllMining")

ProcessAllMovement == OtherPhase("ProcessAllMovement")

ProcessBanking == OtherPhase("ProcessBanking")

ProcessEnterBuildings == OtherPhase("ProcessEnterBuildings")

FindCombatTargets ==
    /\ InPhase("FindCombatTargets")
    /\ \E tg \in TargetChoices(roConfig, database) :
          database' = FindCombatTargetsWith(roConfig, database, tg)
    /\ run' = PhaseDone(run)
    /\ obs' = PhaseSeen(obs, run)
    /\ UNCHANGED <<roConfig, proc, cdVars, detVars, ordVars, fnVars, mapVars, killVars,
                   bldVars, dynVars, entVars, busyVars, accVars>>

\* The next block is attached: UpdateState is called for it.
NextBlock ==
    /\ InPhase("done")
    /\ run.height + 1 < StartHeight + MaxBlocks
    /\ run' = StartRun(run.height + 1)
    /\ proc' = NewProcessor(run.height + 1)
    /\ obs' = StartObs(database)
    /\ UNCHANGED <<roConfig, database, cdVars, detVars, ordVars, fnVars, mapVars, killVars,
                   bldVars, dynVars, entVars, busyVars, accVars>>

Next ==
    \/ RemoveOldEntries
    \/ ComputeModifiers
    \/ DealGainHpDamage
    \/ ReconcileGainedHp
    \/ DealNormalDamage
    \/ MergeNewDead
    \/ SelfDestruct
    \/ CreditGained
    \/ UpdateEffects
    \/ ReturnDead
    \/ UpdateForKill
    \/ ProcessKills
    \/ RegenerateAll
    \/ ProcessBusy
    \/ BuildDynObstacles
    \/ ProcessAdmin
    \/ ProcessAll
    \/ ProcessAllMining
    \/ ProcessAllMovement
    \/ ProcessBanking
    \/ ProcessEnterBuildings
    \/ FindCombatTargets
    \/ NextBlock

Spec == Init /\ [][Next]_vars

TypeOK ==
    /\ run.pc \in {PhaseOrder[i] : i \in 1..Len(PhaseOrder)} \cup {"done", "aborted"}
    /\ \A k \in Keys : database.hp[k].shield \in 0..MaxHpOf.shield
                       /\ database.hp[k].armour \in 0..MaxHpOf.armour

(***************************************************************************)
(* Properties of block processing.                                         *)
(***************************************************************************)
IsPrefix(a, b) == Len(a) <= Len(b) /\ \A i \in 1..Len(a) : a[i] = b[i]

\* The phases the specification lists for a block, in its order.
ListedPhases ==
    <<"RemoveOld", "AllHpUpdates", "ProcessBusy", "DynObstacles",
      "ProcessAdmin", "ProcessAll", "ProcessAllMining", "ProcessAllMovement",
      "ProcessEnterBuildings", "FindCombatTargets">>

IsListed(ph) == \E i \in 1..Len(ListedPhases) : ListedPhases[i] = ph

ListedDone == SelectSeq(obs.phases, IsListed)

\* C1: in every block the listed phases of UpdateState (damage-list
\* pruning, HP updates, busy operations, dynamic obstacles, admin moves,
\* player moves, mining, movement, building entry, target selection) run in
\* that order, each completed before the next starts: the listed phases
\* completed so far are a prefix of the list, a listed phase that is running
\* is the next one of the list, and at the end of the block all have run.
C1_PhaseOrder ==
    /\ IsPrefix(ListedDone, ListedPhases)
    /\ IsListed(run.pc) => run.pc = ListedPhases[Len(ListedDone) + 1]
    /\ run.pc = "done" => ListedDone = ListedPhases

\* The second block has been processed to its end, after a block in which
\* the HP of a fighter changed.
C1_Witness ==
    /\ run.pc = "done"
    /\ run.height > StartHeight
    /\ ListedDone = ListedPhases
    /\ \E k \in Keys : database.hp[k] # obs.start.hp[k]

ClaimedHpOrder ==
    <<"DealCombatDamage", "UpdateForKill", "ProcessKills", "RegenerateHP">>

HpStepIsDone(st) == \E i \in 1..Len(obs.hpSteps) : obs.hpSteps[i] = st

\* The characters that damaged character victim in the current block.
DamagedBy(victim) ==
    {proc.log[i].attacker[2] : i \in
        {j \in 1..Len(proc.log) :
            /\ proc.log[j].target = victim
            /\ IsCharacter(proc.log[j].attacker)
            /\ proc.log[j].done.shield + proc.log[j].done.armour > 0}}

\* C2: the steps of the HP phase run in the order damage, fame updates,
\* kill processing, regeneration; there is one fame update per killed
\* fighter, and it sees the attackers the damage lists hold for the victim;
\* when regeneration has run, every fighter killed in the block has been
\* removed and has not been regenerated.
C2_HpPhaseOrder ==
    /\ IsPrefix(obs.hpSteps, ClaimedHpOrder)
    /\ HpStepIsDone("UpdateForKill") =>
          /\ Len(obs.fame) = Cardinality(run.dead)
          /\ \A k \in run.dead :
                \E i \in 1..Len(obs.fame) :
                    /\ obs.fame[i].victim = k
                    /\ IsCharacter(k) => DamagedBy(k) \subseteq obs.fame[i].attackers
    /\ HpStepIsDone("RegenerateHP") =>
          \A k \in run.dead :
              /\ ~database.exists[k]
              /\ k \notin obs.regen
              /\ database.hp[k].shield = 0 /\ database.hp[k].armour = 0

\* Regeneration has run in a block in which a character with a
\* regeneration rate was killed by another character, and the fame update
\* has seen that attacker.
C2_Witness ==
    /\ HpStepIsDone("RegenerateHP")
    /\ obs.regen # {}
    /\ \E i \in 1..Len(obs.fame) :
          /\ IsCharacter(obs.fame[i].victim)
          /\ obs.fame[i].victim \in run.dead
          /\ DamagedBy(obs.fame[i].victim) # {}
          /\ roConfig.regeneration_mhp[obs.fame[i].victim].shield > 0

\* C5: the modifier DealDamage uses for an attacker is the one computed
\* from the attacker's HP and effects at the start of the damage phase,
\* whatever damage the attacker has received since.
C5_ModifierSnapshot ==
    \A f \in DOMAIN proc.used :
        proc.used[f].mod = FighterModifier(roConfig, obs.start, f)

\* An attacker has dealt its damage at an HP at which its low-HP boost
\* would apply, but with the modifier of the HP it started the phase with.
C5_Witness ==
    \E f \in DOMAIN proc.used :
        /\ ComputeModifier(roConfig.cd[f], proc.used[f].hp, roConfig.max_hp[f],
                           obs.start.effects[f]).damage > proc.used[f].mod.damage
        /\ \E i \in 1..Len(proc.log) : proc.log[i].attacker = f
                                        /\ proc.log[i].kind = "normal"

LogKinds == {proc.log[i].kind : i \in 1..Len(proc.log)}

\* Credit has been the last thing Process applied to the fighters' HP.
JustCredited ==
    /\ InHpStep("DealCombatDamage")
    /\ proc.abort = ""
    /\ "credit" \in LogKinds

Drainers(t) ==
    IF t \in DOMAIN proc.gainHpDrained THEN DOMAIN proc.gainHpDrained[t] ELSE {}

\* What the claim lets attacker a recover from target t.
ClaimedRecovery(t, a) ==
    IF a \notin Drainers(t) THEN 0
    ELSE IF Cardinality(Drainers(t)) = 1 THEN proc.gainHpDrained[t][a].shield
    ELSE IF obs.atReconcile[t].shield = 0 THEN 0
    ELSE proc.gainHpDrained[t][a].shield

KeysSum(F(_)) ==
    LET ks == KeySeq(Keys) IN SumSeq([i \in 1..Len(ks) |-> F(ks[i])])

\* C6: an attacker that is not dead recovers, clamped to its maximum, the
\* shield it drained from every target it alone drained or that has shield
\* left after the gain-HP pass, and nothing from a target that several
\* attackers drained to zero shield.
C6_Reconciliation ==
    JustCredited =>
        \A a \in Keys \ proc.alreadyDead :
            /\ database.hp[a].shield =
                  Min(obs.preCredit[a].shield
                         + KeysSum(LAMBDA t : ClaimedRecovery(t, a)),
                      roConfig.max_hp[a].shield)
            /\ database.hp[a].armour = obs.preCredit[a].armour

\* Two attackers have drained a target to zero shield; one of them is alive
\* and below its maximum shield.
C6_Witness ==
    /\ JustCredited
    /\ \E t \in Keys :
          /\ Cardinality(Drainers(t)) = 2
          /\ obs.atReconcile[t].shield = 0
          /\ \E a \in Drainers(t) \ proc.alreadyDead :
                database.hp[a].shield < roConfig.max_hp[a].shield

IsDamage(e) == e.kind \in {"gain", "normal", "selfdestruct"}

\* C7: gained HP is credited after all damage and all self-destructs, so
\* that no fighter's HP rises before it; and a dead fighter has no HP,
\* before and after the credit.
C7_CreditAfterDamage ==
    /\ \A i, j \in 1..Len(proc.log) :
          (proc.log[i].kind = "credit" /\ IsDamage(proc.log[j])) => j < i
    /\ (InHpStep("DealCombatDamage") /\ "credit" \notin LogKinds) =>
          \A k \in Keys : /\ database.hp[k].shield <= obs.start.hp[k].shield
                          /\ database.hp[k].armour <= obs.start.hp[k].armour
    /\ \A k \in proc.alreadyDead \cup proc.newDead :
          database.hp[k].shield = 0 /\ database.hp[k].armour = 0

\* The credit has been made in a block in which a fighter that had gained
\* HP from a drain was killed.
C7_Witness ==
    /\ "credit" \in LogKinds
    /\ proc.abort = ""
    /\ \E a \in DOMAIN proc.gainedHp : a \in proc.alreadyDead
    /\ \E a \in DOMAIN proc.gainedHp : a \notin proc.alreadyDead

\* The fighters that have a gain_hp attack to apply in the block: those
\* with a target in range of such an attack.
GainHpAttackers ==
    {f \in WithTarget(obs.start) :
        \E i \in 1..Len(roConfig.cd[f].attacks) :
            AttackApplies(roConfig, [db |-> obs.start, p |-> proc], f,
                          roConfig.cd[f].attacks[i],
                          FighterModifier(roConfig, obs.start, f), TRUE)}

\* C8: every gain_hp attack of every attacker is applied, and then the
\* reconciliation is done, before any attack without gain_hp is applied:
\* in the record of the block no normal attack precedes a gain_hp attack or
\* the reconciliation, no gain_hp attack follows the reconciliation, and at
\* the reconciliation every attacker with a gain_hp attack has applied it.
C8_GainHpFirst ==
    /\ \A i, j \in 1..Len(proc.log) :
          /\ (proc.log[i].kind = "normal"
                 /\ proc.log[j].kind \in {"gain", "reconcile"}) => j < i
          /\ (proc.log[i].kind = "reconcile" /\ proc.log[j].kind = "gain") => j < i
    /\ "reconcile" \in LogKinds =>
          \A f \in GainHpAttackers :
              \E i \in 1..Len(proc.log) : proc.log[i].kind = "gain"
                                          /\ proc.log[i].attacker = f
    /\ "normal" \in LogKinds => "reconcile" \in LogKinds

\* A syphon has drained shield from a target, the reconciliation has been
\* done, and then a normal attack has taken shield from the same target.
C8_Witness ==
    \E i, j \in 1..Len(proc.log) :
        /\ proc.log[i].kind = "gain" /\ proc.log[i].done.shield > 0
        /\ proc.log[j].kind = "normal" /\ proc.log[j].done.shield > 0
        /\ proc.log[i].target = proc.log[j].target
        /\ i < j

\* The fighters that had HP at the start of the block and have none now.
Killed ==
    {k \in Keys : /\ obs.start.exists[k]
                  /\ database.hp[k].shield = 0 /\ database.hp[k].armour = 0}

\* C9, the part about states: the CHECKs on the inserts into the newly-dead
\* and already-dead sets do not fail; the dead set DealCombatDamage returns
\* holds exactly the fighters killed in the block; there is exactly one
\* fame update for each of them.
C9_DeadSets ==
    /\ proc.abort \notin {"Process: target was already dead before",
                          "ApplyDamage: target is already dead"}
    /\ proc.newDead \cap proc.alreadyDead = {}
    /\ HpStepIsDone("DealCombatDamage") => run.dead = Killed
    /\ HpStepIsDone("UpdateForKill") =>
          \A k \in run.dead :
              Cardinality({i \in 1..Len(obs.fame) : obs.fame[i].victim = k}) = 1

\* C9, the part about steps: no step changes the HP of a fighter that is
\* in the newly-dead or already-dead set.
C9_NoDamageToDead ==
    \A k \in proc.alreadyDead \cup proc.newDead : database'.hp[k] = database.hp[k]

\* C9: every fighter killed by attacks or by a round of self-destructs is
\* in the returned dead set exactly once, no insert into the dead sets
\* fails, a dead fighter receives no further damage, and one fame update is
\* issued per victim.
C9_DeadExactlyOnce == [](C9_DeadSets) /\ [][C9_NoDamageToDead]_vars

\* The fame updates are done in a block in which a fighter killed by
\* attacks self-destructed and killed a second fighter, whose
\* self-destruct in the next round hit the first again and killed a third.
C9_Witness ==
    /\ HpStepIsDone("UpdateForKill")
    /\ Cardinality(run.dead) = 3
    /\ \E i, j \in 1..Len(proc.log) :
          /\ i < j
          /\ proc.log[i].kind = "selfdestruct" /\ proc.log[j].kind = "selfdestruct"
          /\ proc.log[i].target = proc.log[j].attacker
          /\ proc.log[j].target = proc.log[i].attacker
          /\ proc.log[i].done.shield + proc.log[i].done.armour > 0

(***************************************************************************)
(* Specification SpecOrder: DamageProcessor::Process run twice on the same *)
(* fighters with the same roll for every attack, once with the attackers   *)
(* handled in key order and once in another order.                         *)
(***************************************************************************)
\* A ProcessWithTarget loop of DealDamage calls over the attackers in the
\* given order; rolls[f] holds the draws of f for the two passes.
RECURSIVE DealPass(_, _, _, _, _)
DealPass(cfg, s, order, forGainHp, rolls) ==
    IF order = <<>> THEN s
    ELSE CHOOSE end \in
            {DealPass(cfg, s1, Tail(order), forGainHp, rolls) :
                s1 \in {DealDamage(cfg, s, Head(order), forGainHp,
                                   IF forGainHp THEN rolls[Head(order)].gain
                                   ELSE rolls[Head(order)].normal)}} : TRUE

NoRolls == [dmg |-> <<>>, hit |-> <<>>]

\* ProcessSelfDestructs for each fighter of toProcess in turn, for fighters
\* whose self-destructs have one possible draw (a fixed damage and a hit
\* chance of 100) or that have none.
RECURSIVE SelfDestructEach(_, _)
SelfDestructEach(cfg, s) ==
    IF s.p.toProcess = <<>> THEN s
    ELSE CHOOSE end \in
            {SelfDestructEach(cfg, s1) :
                s1 \in {ProcessSelfDestructs(
                            cfg, [s EXCEPT !.p.toProcess = Tail(@)],
                            Head(s.p.toProcess), r) :
                         r \in SelfDestructRolls(cfg, s, Head(s.p.toProcess))}} :
            TRUE

\* The self-destruct rounds of Process.
RECURSIVE SelfDestructRounds(_, _)
SelfDestructRounds(cfg, s) ==
    IF s.p.abort # "" \/ s.p.newDead = {} THEN s
    ELSE CHOOSE end \in
            {SelfDestructRounds(cfg, s2) :
                s2 \in {SelfDestructEach(cfg, s1) :
                           s1 \in {CascadeMerge(s)}}} : TRUE

\* DamageProcessor::Process with the attackers handled in the given order.
Process(cfg, s, order, rolls) ==
    CHOOSE end \in
        {SwapEffects(s6) :
            s6 \in {CreditGainedHp(cfg, s5) :
            s5 \in {SelfDestructRounds(cfg, s4) :
            s4 \in {DealPass(cfg, s3, order, FALSE, rolls) :
            s3 \in {Reconcile(cfg, s2) :
            s2 \in {DealPass(cfg, s1, order, TRUE, rolls) :
            s1 \in {SnapshotModifiers(cfg, s)}}}}}}} : TRUE

\* What the damage phase leaves behind; a failed CHECK ends the process.
Outcome(s) ==
    IF s.p.abort # ""
    THEN [aborted |-> TRUE, hp |-> <<>>, dead |-> {}, gainedHp |-> <<>>,
          effects |-> <<>>]
    ELSE [aborted |-> FALSE, hp |-> s.db.hp, dead |-> s.p.alreadyDead,
          gainedHp |-> s.p.gainedHp, effects |-> s.db.effects]

\* A gun that is half as effective against shields.
Blaster ==
    [Gun EXCEPT !.damage = [NoDamage EXCEPT !.min = 2, !.max = 2,
                                            !.shield_percent = 50]]

\* A syphon that drains 1 to 3 shield HP.
WideSyphon == [Syphon EXCEPT !.damage.max = 3]

OrdLoadouts ==
    {CdGun, [NoCombatData EXCEPT !.attacks = <<Blaster>>],
     [NoCombatData EXCEPT !.attacks = <<WideSyphon>>]}

\* The two characters attack the building, which attacks one of them.
OrdConfigs ==
    {[faction |-> FactionsWith(<<TYPE_BUILDING, 1>>),
      cd |-> LoadoutsOf(c2, c3, CdGun),
      max_hp |-> [k \in Keys |-> MaxHpOf],
      regeneration_mhp |-> [k \in Keys |-> RegenRate]] :
        c2 \in OrdLoadouts, c3 \in OrdLoadouts}

OrdStartHp ==
    {[k \in Keys |-> IF IsCharacter(k)
                     THEN [shield |-> 1, armour |-> 2, mhp |-> NoMhp]
                     ELSE [shield |-> sh, armour |-> ar, mhp |-> NoMhp]] :
        sh \in {1, 3}, ar \in {1, 2}}

\* The draws of every fighter for the two passes; a fighter without a
\* target is not processed and draws nothing.
OrdRolls(cfg, s) ==
    LET snap == SnapshotModifiers(cfg, s)
    IN  {[k \in Keys |-> [gain |-> c[IndexOfKey(KeySeq(Keys), k)][1],
                          normal |-> c[IndexOfKey(KeySeq(Keys), k)][2]]] :
            c \in Choices([i \in 1..Cardinality(Keys) |->
                     IF KeySeq(Keys)[i] \in WithTarget(s.db)
                     THEN DealRolls(cfg, snap, KeySeq(Keys)[i], TRUE)
                             \X DealRolls(cfg, snap, KeySeq(Keys)[i], FALSE)
                     ELSE {<<NoRolls, NoRolls>>}])}

NoOutcome == [done |-> FALSE, out |-> Outcome(Abort([p |-> [abort |-> ""]], "idle"))]

OrdInit ==
    /\ CdIdle
    /\ DetIdle
    /\ BlkIdle
    /\ FnIdle
    /\ MapIdle
    /\ KillIdle
    /\ BldIdle
    /\ DynIdle
    /\ EntIdle
    /\ BusyIdle
    /\ AccIdle
    /\ \E cfg \in OrdConfigs, hp \in OrdStartHp :
          \E tg \in TargetChoices(cfg, StartRows(cfg, hp)) :
             LET rows == FindCombatTargetsWith(cfg, StartRows(cfg, hp), tg)
                 s == [db |-> rows, p |-> NewProcessor(StartHeight)]
             IN  \E rolls \in OrdRolls(cfg, s),
                    order \in PermSeqs(WithTarget(rows)) :
                    ordIn = [cfg |-> cfg, s |-> s, rolls |-> rolls,
                             order |-> order]
    /\ ordOut = [e \in {1, 2} |-> NoOutcome]

\* The execution that handles the attackers in key order, as the code does.
OrdInKeyOrder ==
    /\ ~ordOut[1].done
    /\ ordOut' = [ordOut EXCEPT
                     ![1] = [done |-> TRUE,
                             out |-> Outcome(Process(ordIn.cfg, ordIn.s,
                                         KeySeq(WithTarget(ordIn.s.db)),
                                         ordIn.rolls))]]
    /\ UNCHANGED <<ordIn, cdVars, detVars, blkVars, fnVars, mapVars, killVars,
                   bldVars, dynVars, entVars, busyVars, accVars>>

\* The execution that handles the attackers in the other order.
OrdInOtherOrder ==
    /\ ~ordOut[2].done
    /\ ordOut' = [ordOut EXCEPT
                     ![2] = [done |-> TRUE,
                             out |-> Outcome(Process(ordIn.cfg, ordIn.s,
                                         ordIn.order, ordIn.rolls))]]
    /\ UNCHANGED <<ordIn, cdVars, detVars, blkVars, fnVars, mapVars, killVars,
                   bldVars, dynVars, entVars, busyVars, accVars>>

OrdNext == OrdInKeyOrder \/ OrdInOtherOrder

SpecOrder == OrdInit /\ [][OrdNext]_vars

\* C4 (as stated): the outcome of the damage-dealing phase (the HP of every
\* fighter, the dead fighters, the gained HP and the effects) is the same
\* for every order in which the attackers with a target are processed,
\* given the same damage and hit outcome for every attack.
C4_OrderIndependent ==
    (ordOut[1].done /\ ordOut[2].done) => ordOut[1].out = ordOut[2].out

(***************************************************************************)
(* More properties of ComputeDamage (specification SpecCD).                *)
(***************************************************************************)
\* C11: an attack damages the armour only if it brings the shield to zero
\* (or the shield is zero already): when the shield damage done is less
\* than the shield, the armour damage is zero.
C11_ArmourOnlyWithoutShield ==
    cdDone.called =>
        /\ cdDone.shield < cdArgs.shield => cdDone.armour = 0
        /\ cdDone.armour > 0 => cdArgs.shield - cdDone.shield = 0

\* ComputeDamage has left shield on a target with armour although base
\* damage remained after the shield damage.
C11_Witness ==
    /\ cdDone.called
    /\ cdDone.shield > 0
    /\ cdDone.shield < cdArgs.shield
    /\ cdArgs.armour > 0
    /\ (CdRemaining * ArmourPercent(cdArgs)) \div 100 > 0
    /\ cdDone.armour = 0

(***************************************************************************)
(* Specification SpecFn: a function of the combat code called on arbitrary *)
(* arguments.                                                              *)
(***************************************************************************)
MaxSize == 8

\* Target and weapon sizes a proto may carry (uint32).
SizeValues == {Unset} \cup (0..MaxSize) \cup {100, 101, 250}

\* The thresholds of the low-HP boost under test.
BoostPercents == {0, 10, 25, 50, 75, 100, 150}

\* The combat data of the entity ComputeModifier is called for: a boost
\* with the given threshold and one that applies at no armour only.
BoostedData(percent) ==
    [NoCombatData EXCEPT
        !.low_hp_boosts = <<[max_hp_percent |-> percent, damage |-> 10,
                             range |-> 20],
                            [max_hp_percent |-> 0, damage |-> 1000,
                             range |-> 2000]>>,
        !.hit_chance_modifier = 5]

NoResult == [called |-> FALSE, aborted |-> FALSE, value |-> 0]

\* PathFinder::NO_CONNECTION: a distance no edge of the map has as weight.
NO_CONNECTION == UnsignedModulus - 1

MoveFactions == {"RED", "GREEN", "BLUE"}

\* The tiles of the movement map: (5, 0) lies in the starter zone of RED
\* and (6, 0) in that of GREEN.
MoveTiles == {<<0, 0>>, <<1, 0>>, <<5, 0>>, <<6, 0>>}

\* SafeZones::StarterFor.
StarterFor(pos) ==
    IF pos = <<5, 0>> THEN "RED"
    ELSE IF pos = <<6, 0>> THEN "GREEN"
    ELSE "INVALID"

\* The weights BaseMap::GetEdgeWeight returns.
EdgeWeights == {NO_CONNECTION, 0, 1, 2, 3, 1000, 1001, 3002}

\* MovementEdgeWeight deciding on the starter zone of the source tile.
MovementEdgeWeight_FromStarter(baseWeight, f, from, to) ==
    IF baseWeight = NO_CONNECTION THEN NO_CONNECTION
    ELSE IF StarterFor(from) = "INVALID" THEN baseWeight
    ELSE IF StarterFor(from) = f THEN baseWeight \div 3
    ELSE NO_CONNECTION

\* MovementEdgeWeight on a map whose GetEdgeWeight (from, to) is baseWeight.
MovementEdgeWeight(baseWeight, f, from, to) ==
    IF baseWeight = NO_CONNECTION THEN NO_CONNECTION
    ELSE LET toStarter == StarterFor(to)
         IN  IF toStarter = "INVALID" THEN baseWeight
             ELSE IF toStarter = f THEN baseWeight \div 3
             ELSE NO_CONNECTION

\* The maximum HP and the regeneration rates RegenerateHpType is called
\* with, up to the largest unsigned.
RegenMaxValues == {0, 1, 3, UnsignedModulus - 2, UnsignedModulus - 1}

RegenRateValues ==
    {0, 1, 400, 999, 1000, 1001, 2500, UnsignedModulus - 999, UnsignedModulus - 1}

\* The hit-chance modifiers of the attacker under test, in percent.
HitModValues == {0 - 150, 0 - 100, 0, 200}

\* xaya::Random::ProbabilityRoll (numer, denom) on the stream rnd, the
\* sequence of the draws made so far: one draw, whose outcome the stream
\* decides.
ProbabilityRollRnd(rnd, numer, denom, outcome) ==
    [value |-> outcome,
     rnd |-> Append(rnd, [numer |-> numer, denom |-> denom])]

AttackHitsTargetRnd_AlwaysRoll(target, attack, attackerHitMod, rnd, outcome) ==
    LET chance == StatApply(attackerHitMod, BaseHitChance(target, attack))
        roll == ProbabilityRollRnd(rnd, chance, 100, outcome)
    IN  IF chance <= 0 THEN [roll EXCEPT !.value = FALSE]
        ELSE IF chance >= 100 THEN [roll EXCEPT !.value = TRUE]
        ELSE roll

\* DamageProcessor::AttackHitsTarget with the random stream it draws from.
AttackHitsTargetRnd(target, attack, attackerHitMod, rnd, outcome) ==
    LET chance == StatApply(attackerHitMod, BaseHitChance(target, attack))
    IN  IF chance <= 0 THEN [value |-> FALSE, rnd |-> rnd]
        ELSE IF chance >= 100 THEN [value |-> TRUE, rnd |-> rnd]
        ELSE ProbabilityRollRnd(rnd, chance, 100, outcome)

\* The low-level ApplyDamage up to the hit check: whether the attack goes
\* on to damage the target, and the random stream afterwards.
ApplyDamageHitCheck(target, pb, attackerHitMod, isDead, rnd, outcome) ==
    IF isDead THEN [value |-> FALSE, rnd |-> rnd]
    ELSE AttackHitsTargetRnd(target, pb, attackerHitMod, rnd, outcome)

CallApplyDamage ==
    /\ fnArgs.fn = "ApplyDamage"
    /\ ~fnOut.called
    /\ fnOut' = IF ~fnArgs.dead /\ BaseHitChanceCheckFails(fnArgs, fnArgs)
                THEN [called |-> TRUE, aborted |-> TRUE, value |-> 0]
                ELSE [called |-> TRUE, aborted |-> FALSE,
                      value |-> ApplyDamageHitCheck(fnArgs, fnArgs,
                                                    fnArgs.hit_mod, fnArgs.dead,
                                                    <<>>, fnArgs.outcome)]
    /\ UNCHANGED <<fnArgs, cdVars, detVars, blkVars, ordVars, mapVars, killVars,
                   bldVars, dynVars, entVars, busyVars, accVars>>

FnInit ==
    /\ CdIdle
    /\ DetIdle
    /\ BlkIdle
    /\ OrdIdle
    /\ MapIdle
    /\ KillIdle
    /\ BldIdle
    /\ DynIdle
    /\ EntIdle
    /\ BusyIdle
    /\ AccIdle
    /\ fnArgs \in [fn : {"BaseHitChance"}, target_size : SizeValues,
                   weapon_size : SizeValues]
                     \cup {a \in [fn : {"ComputeModifier"},
                                  armour : 0..MaxHp, shield : 0..MaxHp,
                                  max_armour : 0..MaxHp,
                                  max_hp_percent : BoostPercents,
                                  eff_range : {0, 100}] :
                              a.armour <= a.max_armour}
                     \cup {a \in [fn : {"RegenerateHpType"}, max : RegenMaxValues,
                                  mhpRate : RegenRateValues,
                                  oldCur : RegenMaxValues \cup {2},
                                  oldMilli : {0, 1, 600, 999}] :
                              RegenPrecondition(a.max, a.oldCur, a.oldMilli)}
                     \cup {a \in [fn : {"MovementEdgeWeight"}, f : MoveFactions,
                                  from : MoveTiles, to : MoveTiles,
                                  baseWeight : EdgeWeights] :
                              a.from # a.to}
                     \cup [fn : {"ApplyDamage"}, target_size : SizeValues,
                           weapon_size : SizeValues, hit_mod : HitModValues,
                           dead : BOOLEAN, outcome : BOOLEAN]
    /\ fnOut = NoResult

CallBaseHitChance ==
    /\ fnArgs.fn = "BaseHitChance"
    /\ ~fnOut.called
    /\ fnOut' = IF BaseHitChanceCheckFails(fnArgs, fnArgs)
                THEN [called |-> TRUE, aborted |-> TRUE, value |-> 0]
                ELSE [called |-> TRUE, aborted |-> FALSE,
                      value |-> BaseHitChance(fnArgs, fnArgs)]
    /\ UNCHANGED <<fnArgs, cdVars, detVars, blkVars, ordVars, mapVars, killVars,
                   bldVars, dynVars, entVars, busyVars, accVars>>

CallComputeModifier ==
    /\ fnArgs.fn = "ComputeModifier"
    /\ ~fnOut.called
    /\ fnOut' = [called |-> TRUE, aborted |-> FALSE,
                 value |-> ComputeModifier(
                              BoostedData(fnArgs.max_hp_percent),
                              [shield |-> fnArgs.shield,
                               armour |-> fnArgs.armour],
                              [shield |-> MaxHp, armour |-> fnArgs.max_armour],
                              [NoFx EXCEPT !.range = fnArgs.eff_range])]
    /\ UNCHANGED <<fnArgs, cdVars, detVars, blkVars, ordVars, mapVars, killVars,
                   bldVars, dynVars, entVars, busyVars, accVars>>

CallRegenerateHpType ==
    /\ fnArgs.fn = "RegenerateHpType"
    /\ ~fnOut.called
    /\ fnOut' = IF \/ ~RegenPrecondition(fnArgs.max, fnArgs.oldCur, fnArgs.oldMilli)
                   \/ RegenResultCheckFails(fnArgs.max, fnArgs.mhpRate,
                                            fnArgs.oldCur, fnArgs.oldMilli)
                THEN [called |-> TRUE, aborted |-> TRUE, value |-> 0]
                ELSE [called |-> TRUE, aborted |-> FALSE,
                      value |-> RegenerateHpType(fnArgs.max, fnArgs.mhpRate,
                                                 fnArgs.oldCur, fnArgs.oldMilli)]
    /\ UNCHANGED <<fnArgs, cdVars, detVars, blkVars, ordVars, mapVars, killVars,
                   bldVars, dynVars, entVars, busyVars, accVars>>

CallMovementEdgeWeight ==
    /\ fnArgs.fn = "MovementEdgeWeight"
    /\ ~fnOut.called
    /\ fnOut' = [called |-> TRUE, aborted |-> FALSE,
                 value |-> MovementEdgeWeight(fnArgs.baseWeight, fnArgs.f,
                                              fnArgs.from, fnArgs.to)]
    /\ UNCHANGED <<fnArgs, cdVars, detVars, blkVars, ordVars, mapVars, killVars,
                   bldVars, dynVars, entVars, busyVars, accVars>>

FnNext ==
    \/ CallBaseHitChance
    \/ CallComputeModifier
    \/ CallRegenerateHpType
    \/ CallMovementEdgeWeight
    \/ CallApplyDamage

SpecFn == FnInit /\ [][FnNext]_vars

Returned(fn) == fnArgs.fn = fn /\ fnOut.called /\ ~fnOut.aborted

\* C12: BaseHitChance returns 100 when a size is not set or the target
\* size is at least the weapon size, else floor(100 * target_size /
\* weapon_size); what it returns is in 0..100.
C12_BaseHitChance ==
    Returned("BaseHitChance") =>
        /\ (fnArgs.target_size = Unset \/ fnArgs.weapon_size = Unset
               \/ fnArgs.target_size >= fnArgs.weapon_size) => fnOut.value = 100
        /\ (fnArgs.target_size # Unset /\ fnArgs.weapon_size # Unset
               /\ fnArgs.target_size < fnArgs.weapon_size) =>
              fnOut.value = (100 * fnArgs.target_size) \div fnArgs.weapon_size
        /\ fnOut.value \in 0..100

\* BaseHitChance has returned a chance strictly between 0 and 100 that the
\* division rounded down.
C12_Witness ==
    /\ Returned("BaseHitChance")
    /\ fnOut.value \in 1..99
    /\ fnOut.value * fnArgs.weapon_size < 100 * fnArgs.target_size

(***************************************************************************)
(* Specification SpecMap: blocks of fighters that move on a map with a     *)
(* no-combat tile.  A block is the HP updates (damage, kills and           *)
(* regeneration), the movement and the target finding; the attacks of the  *)
(* loadouts roll a fixed damage and always hit.                            *)
(***************************************************************************)
\* 1 damage to the target at range 2.
Rifle == [Gun EXCEPT !.damage.max = 1]

\* 1 damage to every enemy within 1 tile of the attacker.
Nova == [Rifle EXCEPT !.range = Unset, !.area = 1]

\* 1 damage to every enemy within 1 tile of a target at range 3.
Missile == [Rifle EXCEPT !.range = 3, !.area = 1]

\* Turns the target at range 2 into a mentecon.
Jammer ==
    [Rifle EXCEPT !.has_damage = FALSE, !.damage = NoDamage,
                  !.has_effects = TRUE,
                  !.effects = [NoFx EXCEPT !.mentecon = TRUE]]

\* Doubles the range of every friendly within 2 tiles of the attacker.
Booster ==
    [Rifle EXCEPT !.range = Unset, !.area = 2, !.friendlies = TRUE,
                  !.has_damage = FALSE, !.damage = NoDamage,
                  !.has_effects = TRUE,
                  !.effects = [NoFx EXCEPT !.range = 100]]

CdOf(attacks) == [NoCombatData EXCEPT !.attacks = attacks]

\* A rifle, a low-HP boost of the range and a self-destruct of 1 damage.
CdMine ==
    [NoCombatData EXCEPT
        !.attacks = <<Rifle>>,
        !.low_hp_boosts = <<[max_hp_percent |-> 50, damage |-> 0,
                             range |-> 100]>>,
        !.self_destructs = <<[area |-> 1,
                              damage |-> [NoDamage EXCEPT !.min = 1,
                                                          !.max = 1]]>>]

\* A rifle, a friendly booster and a self-destruct of 1 damage.
CdBomb ==
    [NoCombatData EXCEPT
        !.attacks = <<Rifle, Booster>>,
        !.self_destructs = <<[area |-> 1,
                              damage |-> [NoDamage EXCEPT !.min = 1,
                                                          !.max = 1]]>>]

FullHp == [shield |-> 3, armour |-> 2, mhp |-> NoMhp]

WeakHp == [shield |-> 0, armour |-> 1, mhp |-> NoMhp]

HpOf(c2, c3, b1) == LoadoutsOf(c2, c3, b1)

\* The worlds of the specification: the factions, loadouts and starting HP
\* of the two characters and the building.
MapScenarios ==
    {[faction |-> FactionsWith(<<TYPE_CHARACTER, 3>>),
      cd |-> LoadoutsOf(CdOf(<<Rifle>>), CdOf(<<Rifle>>), CdOf(<<Rifle>>)),
      hp |-> HpOf(FullHp, FullHp, FullHp)],
     [faction |-> FactionsWith(<<TYPE_CHARACTER, 3>>),
      cd |-> LoadoutsOf(CdOf(<<Rifle>>), CdMine, CdOf(<<Rifle>>)),
      hp |-> HpOf(FullHp, WeakHp, FullHp)],
     [faction |-> FactionsWith(<<TYPE_CHARACTER, 2>>),
      cd |-> LoadoutsOf(CdOf(<<Missile, Nova, Rifle>>), CdMine, NoCombatData),
      hp |-> HpOf(FullHp, WeakHp, FullHp)],
     [faction |-> FactionsWith(<<TYPE_CHARACTER, 2>>),
      cd |-> LoadoutsOf(CdOf(<<Jammer>>), CdOf(<<Rifle, Nova, Booster>>),
                       NoCombatData),
      hp |-> HpOf(FullHp, FullHp, FullHp)],
     [faction |-> FactionsWith(<<TYPE_BUILDING, 1>>),
      cd |-> LoadoutsOf(CdOf(<<Booster, Booster>>), CdBomb, CdOf(<<Rifle>>)),
      hp |-> HpOf(FullHp, WeakHp, FullHp)]}

\* The tiles a character can stand on; <<0, 2>> is the no-combat tile.
MapTiles == {<<0, 0>>, <<1, 0>>, <<2, 0>>, <<4, 0>>, <<0, 2>>}

BuildingTile == <<0, 1>>

\* The positions the fighters of rows can have: the characters that exist
\* stand on different tiles, everyone else stays.
MapPositions(rows) ==
    {pos \in [Keys -> MapTiles \cup {BuildingTile}] :
        /\ \A k \in Keys :
              IF IsCharacter(k) /\ rows.exists[k] THEN pos[k] \in MapTiles
              ELSE pos[k] = rows.pos[k]
        /\ \A k \in Keys, l \in Keys :
              (k # l /\ rows.exists[k] /\ rows.exists[l]) => pos[k] # pos[l]}

MaxMapBlocks == 2

MapStartRows(sc) ==
    [exists |-> [k \in Keys |-> TRUE],
     pos |-> [k \in Keys |-> BuildingTile],
     hp |-> sc.hp,
     effects |-> [k \in Keys |-> NoFx],
     target |-> [k \in Keys |-> NoTarget],
     friendly |-> [k \in Keys |-> FALSE],
     dl |-> {}]

\* New fighters stand on the map without targets; the first block is at
\* its target finding.
MapInit ==
    /\ CdIdle
    /\ DetIdle
    /\ BlkIdle
    /\ OrdIdle
    /\ FnIdle
    /\ KillIdle
    /\ BldIdle
    /\ DynIdle
    /\ EntIdle
    /\ BusyIdle
    /\ AccIdle
    /\ \E sc \in MapScenarios :
          /\ mapCfg = [faction |-> sc.faction, cd |-> sc.cd,
                       max_hp |-> [k \in Keys |-> MaxHpOf],
                       regeneration_mhp |-> [k \in Keys |-> RegenRate]]
          /\ \E pos \in MapPositions(MapStartRows(sc)) :
                LET rows == [MapStartRows(sc) EXCEPT !.pos = pos]
                IN  mapSt = [db |-> rows, prev |-> rows,
                             p |-> NewProcessor(StartHeight),
                             pc |-> "targets", blocks |-> 0]

\* PXLogic::UpdateState up to AllHpUpdates: old damage-list entries are
\* removed, damage is dealt, the dead are removed and HP regenerate.
MapHpUpdates ==
    /\ mapSt.pc = "hp"
    /\ mapSt.blocks <= MaxMapBlocks
    /\ \E s0 \in {[db |-> [mapSt.db EXCEPT !.dl = RemoveOld(@, StartHeight + mapSt.blocks, DamageListBlocks)],
                   p |-> NewProcessor(StartHeight + mapSt.blocks)]} :
       \E rolls \in OrdRolls(mapCfg, s0) :
       \E s1 \in {Process(mapCfg, s0, KeySeq(WithTarget(s0.db)), rolls)} :
       \E rows \in {ProcessKillsLoop(s1.db, KeySeq(s1.p.alreadyDead))} :
          mapSt' = IF s1.p.abort # "" \/ RegenCheckFails(mapCfg, rows)
                   THEN [mapSt EXCEPT !.p = s1.p, !.pc = "aborted",
                                      !.prev = mapSt.db]
                   ELSE [mapSt EXCEPT !.db = RegenerateHP(mapCfg, rows),
                                      !.prev = mapSt.db, !.p = s1.p,
                                      !.pc = "move"]
    /\ UNCHANGED <<mapCfg, cdVars, detVars, blkVars, ordVars, fnVars, killVars,
                   bldVars, dynVars, entVars, busyVars, accVars>>

\* The phases between the HP updates and the target finding: the
\* characters move.
MapMove ==
    /\ mapSt.pc = "move"
    /\ mapSt.blocks < MaxMapBlocks
    /\ \E pos \in MapPositions(mapSt.db) :
          mapSt' = [mapSt EXCEPT !.db.pos = pos, !.prev = mapSt.db,
                                 !.pc = "targets"]
    /\ UNCHANGED <<mapCfg, cdVars, detVars, blkVars, ordVars, fnVars, killVars,
                   bldVars, dynVars, entVars, busyVars, accVars>>

\* FindCombatTargets, the last phase of the block.
MapFindTargets ==
    /\ mapSt.pc = "targets"
    /\ \E tg \in TargetChoices(mapCfg, mapSt.db) :
          mapSt' = [mapSt EXCEPT
                       !.db = FindCombatTargetsWith(mapCfg, mapSt.db, tg),
                       !.prev = mapSt.db, !.pc = "hp", !.blocks = @ + 1]
    /\ UNCHANGED <<mapCfg, cdVars, detVars, blkVars, ordVars, fnVars, killVars,
                   bldVars, dynVars, entVars, busyVars, accVars>>

MapNext == MapHpUpdates \/ MapMove \/ MapFindTargets

SpecMap == MapInit /\ [][MapNext]_vars

\* No CHECK of the combat code fails on the map.
MapNoAbort == mapSt.pc # "aborted"

\* Target finding has just run: the rows are those it left, and prev
\* holds the rows it started from.
AfterFindTargets == mapSt.pc = "hp" /\ mapSt.blocks > 0

HasAttacks(f) == mapSt.db.exists[f] /\ mapCfg.cd[f].attacks # <<>>

\* The enemies fighter f is allowed to attack from where it stands in
\* rows: the other fighters of another faction (of any faction while f is
\* a mentecon) outside the no-combat zone and within the modified range of
\* the attacks of f on enemies; none while f itself is in the no-combat zone.
EligibleEnemies(rows, f) ==
    LET reach == GetAttackRange(mapCfg.cd[f], FALSE)
        range == StatApply(FighterModifier(mapCfg, rows, f).range, reach)
    IN  IF reach = NO_ATTACKS \/ IsNoCombat(rows.pos[f]) THEN {}
        ELSE {t \in Keys \ {f} :
                 /\ rows.exists[t]
                 /\ ~IsNoCombat(rows.pos[t])
                 /\ mapCfg.faction[t] # mapCfg.faction[f]
                       \/ rows.effects[f].mentecon
                 /\ DistanceL1(rows.pos[f], rows.pos[t]) <= range}

Closer(rows, f, t, u) ==
    DistanceL1(rows.pos[f], rows.pos[t]) < DistanceL1(rows.pos[f], rows.pos[u])

\* C13: after FindCombatTargets, every fighter with attacks that has an
\* eligible enemy within its modified attack range targets one of the
\* eligible enemies closest to it, and every other fighter with attacks has
\* no target, whatever its target was before.
C13_ClosestTarget ==
    AfterFindTargets =>
        \A f \in Keys : HasAttacks(f) =>
            LET el == EligibleEnemies(mapSt.db, f)
                t == mapSt.db.target[f]
            IN  IF el = {} THEN t = NoTarget
                ELSE t \in el /\ \A u \in el : ~Closer(mapSt.db, f, u, t)

\* Target finding has replaced the target of the previous block, which is
\* still eligible but no longer the closest enemy, by a closer one.
C13_Witness ==
    /\ AfterFindTargets
    /\ \E f \in Keys :
          /\ HasAttacks(f)
          /\ mapSt.prev.target[f] # NoTarget
          /\ mapSt.prev.target[f] \in EligibleEnemies(mapSt.db, f)
          /\ mapSt.db.target[f] # mapSt.prev.target[f]
          /\ Closer(mapSt.db, f, mapSt.db.target[f], mapSt.prev.target[f])

\* The HP updates have just run: p is the DamageProcessor as Process left
\* it, and prev holds the rows they started from.
AfterHpUpdates == mapSt.pc \in {"move", "aborted"}

\* The ApplyDamage calls of the last damage phase.
DamageCalls == {mapSt.p.log[i] : i \in 1..Len(mapSt.p.log)} \ {e \in {mapSt.p.log[i] : i \in 1..Len(mapSt.p.log)} : e.kind \in {"reconcile", "credit"}}

InSafeZone(rows, f) == rows.exists[f] /\ IsNoCombat(rows.pos[f])

NoCombatChecks ==
    {"DealDamage: attacker in no-combat zone",
     "ApplyDamage: target in no-combat zone",
     "ApplyEffects: target in no-combat zone",
     "ProcessSelfDestructs: fighter in no-combat zone"}

\* C14: a fighter on a no-combat tile is not selected as target and gets
\* neither a target nor the friendly-targets flag when targets are found;
\* in the damage phase it neither attacks nor is it hit by an attack, an
\* area attack or a self-destruct, nor does it receive effects, and none
\* of the no-combat CHECKs of DealDamage, ApplyDamage, ApplyEffects and
\* ProcessSelfDestructs fails.
C14_NoCombatZone ==
    /\ AfterFindTargets =>
          \A f \in Keys : mapSt.db.exists[f] =>
              /\ mapSt.db.target[f] # NoTarget =>
                    ~IsNoCombat(mapSt.db.pos[mapSt.db.target[f]])
              /\ IsNoCombat(mapSt.db.pos[f]) =>
                    mapSt.db.target[f] = NoTarget /\ ~mapSt.db.friendly[f]
    /\ AfterHpUpdates =>
          /\ mapSt.p.abort \notin NoCombatChecks
          /\ \A e \in DamageCalls :
                ~InSafeZone(mapSt.prev, e.target)
                   /\ ~InSafeZone(mapSt.prev, e.attacker)
          /\ \A f \in DOMAIN mapSt.p.newEffects : ~InSafeZone(mapSt.prev, f)

\* The centre of attack i of fighter a in rows, if the attack has an area.
AreaCentre(rows, a, i) ==
    IF mapCfg.cd[a].attacks[i].range # Unset THEN rows.pos[rows.target[a]]
    ELSE rows.pos[a]

\* An area attack has hit a fighter while an enemy of the attacker stood
\* within the area on a no-combat tile.
C14_Witness ==
    /\ mapSt.pc = "move"
    /\ \E e \in DamageCalls :
          \E i \in 1..Len(mapCfg.cd[e.attacker].attacks), f \in Keys :
             /\ e.kind = "normal"
             /\ mapCfg.cd[e.attacker].attacks[i].area # Unset
             /\ ~mapCfg.cd[e.attacker].attacks[i].friendlies
             /\ InSafeZone(mapSt.prev, f)
             /\ mapCfg.faction[f] # mapCfg.faction[e.attacker]
             /\ DistanceL1(AreaCentre(mapSt.prev, e.attacker, i),
                           mapSt.prev.pos[f])
                   <= mapCfg.cd[e.attacker].attacks[i].area
             /\ mapSt.db.hp[f].armour = mapSt.prev.hp[f].armour
             /\ \A d \in DamageCalls : d.target # f

\* The fighters other than f, of any faction, that stand outside the
\* no-combat zone within distance range of centre.
OthersAround(rows, f, centre, range) ==
    {t \in Keys \ {f} : /\ rows.exists[t]
                         /\ ~IsNoCombat(rows.pos[t])
                         /\ DistanceL1(centre, rows.pos[t]) <= range}

\* The fighters of OthersAround a search of f for enemies (or for
\* friendlies) looks at: all of them while f is a mentecon.
SearchedBy(rows, f, centre, range, enemies) ==
    {t \in OthersAround(rows, f, centre, range) :
        \/ rows.effects[f].mentecon
        \/ enemies = (mapCfg.faction[t] # mapCfg.faction[f])}

\* The fighters the last damage phase applied an attack of kind to, for
\* attacker a.
HitBy(a, kind) == {e.target : e \in {d \in DamageCalls : d.attacker = a /\ d.kind = kind}}

\* C15: no fighter targets itself or applies an attack, an area attack or
\* a self-destruct of its own to itself.  The searches of a fighter for
\* enemies (the target, an area attack, a self-destruct) and for
\* friendlies (the friendly-targets flag, a friendly area attack) look at
\* the fighters of the other kind as well while it is a mentecon, and
\* never at the fighter itself.
C15_NeverSelf ==
    /\ AfterFindTargets =>
          \A f \in Keys : HasAttacks(f) /\ ~IsNoCombat(mapSt.db.pos[f]) =>
              LET mod == FighterModifier(mapCfg, mapSt.db, f)
                  reach(fr) == GetAttackRange(mapCfg.cd[f], fr)
                  seen(fr) == SearchedBy(mapSt.db, f, mapSt.db.pos[f],
                                         StatApply(mod.range, reach(fr)), ~fr)
              IN  /\ mapSt.db.target[f] # f
                  /\ reach(FALSE) # NO_ATTACKS =>
                        (mapSt.db.target[f] = NoTarget <=> seen(FALSE) = {})
                  /\ mapSt.db.target[f] # NoTarget =>
                        mapSt.db.target[f] \in seen(FALSE)
                  /\ mapSt.db.friendly[f] <=>
                        (reach(TRUE) # NO_ATTACKS /\ seen(TRUE) # {})
    /\ AfterHpUpdates =>
          /\ \A e \in DamageCalls : e.target # e.attacker
          /\ \A a \in DOMAIN mapSt.p.used :
                \A i \in 1..Len(mapCfg.cd[a].attacks) :
                   LET at == mapCfg.cd[a].attacks[i]
                       mod == mapSt.p.used[a].mod
                   IN  (at.range = Unset /\ at.area # Unset /\ mapSt.p.abort = "")
                          => SearchedBy(mapSt.prev, a, mapSt.prev.pos[a],
                                        StatApply(mod.range, at.area),
                                        ~at.friendlies)
                                \subseteq HitBy(a, "normal")
          /\ \A f \in DOMAIN mapSt.p.newEffects :
                \E a \in DOMAIN mapSt.p.used \ {f} :
                   \E i \in 1..Len(mapCfg.cd[a].attacks) :
                      mapCfg.cd[a].attacks[i].has_effects

\* A mentecon has hit a fighter of its own faction, and not itself, with
\* an area attack centred on itself.
C15_Witness ==
    /\ mapSt.pc = "move"
    /\ \E a \in DOMAIN mapSt.p.used :
          /\ mapSt.prev.effects[a].mentecon
          /\ \E t \in HitBy(a, "normal") :
                /\ mapCfg.faction[t] = mapCfg.faction[a]
                /\ t # mapSt.prev.target[a]
                /\ mapSt.db.hp[t].shield + mapSt.db.hp[t].armour
                      < mapSt.prev.hp[t].shield + mapSt.prev.hp[t].armour
          /\ \E i \in 1..Len(mapCfg.cd[a].attacks) :
                /\ mapCfg.cd[a].attacks[i].range = Unset
                /\ mapCfg.cd[a].attacks[i].has_damage

\* Whether attack at of fighter a, whose modifier is mod, is within reach
\* of the target a has in rows.
TargetInRange(rows, a, at, mod) ==
    /\ rows.target[a] # NoTarget
    /\ DistanceL1(rows.pos[a], rows.pos[rows.target[a]])
          <= StatApply(mod.range, at.range)

\* The fighters attack at of a has to be applied to according to C16.
ClaimedTargets(rows, a, at, mod) ==
    IF at.range # Unset /\ ~TargetInRange(rows, a, at, mod) THEN {}
    ELSE IF at.area = Unset THEN {rows.target[a]}
    ELSE SearchedBy(rows, a,
                    IF at.range # Unset THEN rows.pos[rows.target[a]]
                    ELSE rows.pos[a],
                    StatApply(mod.range, at.area), ~at.friendlies)

RECURSIVE ClaimedCalls(_, _, _, _)
ClaimedCalls(rows, a, mod, i) ==
    IF i > Len(mapCfg.cd[a].attacks) THEN <<>>
    ELSE KeySeq(ClaimedTargets(rows, a, mapCfg.cd[a].attacks[i], mod))
            \o ClaimedCalls(rows, a, mod, i + 1)

\* The targets of the attacks the last damage phase applied for a, in the
\* order of the calls.
AppliedCalls(a) ==
    LET calls == SelectSeq(mapSt.p.log,
                           LAMBDA e : e.attacker = a /\ e.kind = "normal")
    IN  [i \in 1..Len(calls) |-> calls[i].target]

\* C16: DealDamage applies an attack with a range only if the fighter has
\* a target within the modified range of that attack; it applies an attack
\* with an area to the fighters around the target if the attack has a
\* range as well and around the attacker if not, and an attack without
\* area to the target alone.
C16_AttackTargets ==
    (mapSt.pc = "move") =>
        \A a \in DOMAIN mapSt.p.used :
            AppliedCalls(a)
               = ClaimedCalls(mapSt.prev, a, mapSt.p.used[a].mod, 1)

\* A fighter has not applied an attack whose range is too short for its
\* target, while another of its attacks has hit a fighter next to the
\* target that is out of reach of the attacker itself.
C16_Witness ==
    /\ mapSt.pc = "move"
    /\ \E a \in DOMAIN mapSt.p.used :
          LET mod == mapSt.p.used[a].mod
              atts == mapCfg.cd[a].attacks
          IN  /\ \E i \in 1..Len(atts) :
                    /\ atts[i].range # Unset
                    /\ ~TargetInRange(mapSt.prev, a, atts[i], mod)
              /\ \E j \in 1..Len(atts), t \in HitBy(a, "normal") :
                    /\ atts[j].range # Unset /\ atts[j].area # Unset
                    /\ TargetInRange(mapSt.prev, a, atts[j], mod)
                    /\ t # mapSt.prev.target[a]
                    /\ DistanceL1(mapSt.prev.pos[a], mapSt.prev.pos[t])
                          > StatApply(mod.range, atts[j].range)

\* The effects of the attacks with effects that C16 has the attackers
\* as[i..] apply to fighter f, added up.
RECURSIVE EffectsOfAttack(_, _, _, _)
EffectsOfAttack(rows, a, f, i) ==
    IF i > Len(mapCfg.cd[a].attacks) THEN NoFx
    ELSE LET at == mapCfg.cd[a].attacks[i]
             rest == EffectsOfAttack(rows, a, f, i + 1)
         IN  IF at.has_effects
                /\ f \in ClaimedTargets(rows, a, at, mapSt.p.used[a].mod)
             THEN AddFx(at.effects, rest)
             ELSE rest

RECURSIVE EffectsOfBlock(_, _, _)
EffectsOfBlock(rows, as, f) ==
    IF as = <<>> THEN NoFx
    ELSE AddFx(EffectsOfAttack(rows, Head(as), f, 1),
               EffectsOfBlock(rows, Tail(as), f))

\* The fighters the self-destructs of f reach when its modifier is computed
\* from the effects it has in rows and no HP.
SelfDestructReach(rows, f) ==
    LET mod == ComputeModifier(mapCfg.cd[f], ZeroHp, mapCfg.max_hp[f],
                               rows.effects[f])
        sds == mapCfg.cd[f].self_destructs
    IN  UNION {SearchedBy(rows, f, rows.pos[f],
                          StatApply(mod.range, sds[j].area), TRUE) :
                  j \in 1..Len(sds)}

\* C17: after the damage phase the combat effects of a fighter are the
\* accumulated effects of the attacks applied to it in this block and
\* nothing of what it had before; the modifiers of the phase, those taken
\* before the damage and those recomputed for the self-destructs, are
\* computed from the effects of the previous block.
C17_EffectsSwap ==
    (mapSt.pc = "move") =>
        /\ \A f \in DOMAIN mapSt.p.newEffects :
              /\ mapSt.prev.exists[f]
              /\ mapSt.p.newEffects[f]
                    = EffectsOfBlock(mapSt.prev, KeySeq(DOMAIN mapSt.p.used), f)
        /\ \A f \in Keys : mapSt.db.exists[f] =>
              mapSt.db.effects[f]
                 = EffectsOfBlock(mapSt.prev, KeySeq(DOMAIN mapSt.p.used), f)
        /\ \A a \in DOMAIN mapSt.p.used :
              mapSt.p.used[a].mod
                 = ComputeModifier(mapCfg.cd[a], mapSt.prev.hp[a],
                                   mapCfg.max_hp[a], mapSt.prev.effects[a])
        /\ \A f \in mapSt.p.alreadyDead :
              HitBy(f, "selfdestruct") = SelfDestructReach(mapSt.prev, f)

\* A fighter that carried the effects of two attacks from the previous
\* block has been given the effects of two attacks again, and has them
\* once; its modifier in the phase was the one of the previous effects.
C17_Witness ==
    /\ mapSt.pc = "move"
    /\ mapSt.blocks = 2
    /\ \E f \in DOMAIN mapSt.p.used :
          /\ mapSt.db.exists[f]
          /\ mapSt.prev.effects[f].range = 200
          /\ mapSt.db.effects[f].range = 200
          /\ mapSt.p.used[f].mod.range = 200

\* A fighter that was given a larger range in this phase has
\* self-destructed with the range it had before, which did not reach an
\* enemy that the new range would have reached.
C17_SelfDestructWithOldRange ==
    /\ mapSt.pc = "move"
    /\ \E d \in mapSt.p.alreadyDead :
          /\ d \in DOMAIN mapSt.p.newEffects
          /\ mapSt.p.newEffects[d].range > mapSt.prev.effects[d].range
          /\ SelfDestructReach(mapSt.prev, d)
                # SelfDestructReach([mapSt.prev EXCEPT !.effects[d] =
                                        mapSt.p.newEffects[d]], d)

\* The damage boosts contained in a damage modifier of the entity of
\* BoostedData: the first and the second boost.
HasFirstBoost(mod) == mod.damage % 1000 = 10

HasSecondBoost(mod) == mod.damage >= 1000

\* C18: a low-HP boost applies iff 100 * armour <= max_hp_percent * max
\* armour, that is iff armour <= floor(max armour * max_hp_percent / 100),
\* whatever the shield is; an entity without armour and shield, as it is
\* when it self-destructs, gets every boost.
C18_LowHpBoost ==
    Returned("ComputeModifier") =>
        LET mod == fnOut.value
            limit == (fnArgs.max_armour * fnArgs.max_hp_percent) \div 100
        IN  /\ HasFirstBoost(mod)
                  <=> 100 * fnArgs.armour
                         <= fnArgs.max_hp_percent * fnArgs.max_armour
            /\ HasFirstBoost(mod) <=> fnArgs.armour <= limit
            /\ HasSecondBoost(mod) <=> fnArgs.armour = 0
            /\ mod.range = (IF HasFirstBoost(mod) THEN 20 ELSE 0)
                              + (IF HasSecondBoost(mod) THEN 2000 ELSE 0)
                              + fnArgs.eff_range
            /\ (fnArgs.armour = 0 /\ fnArgs.shield = 0)
                  => mod.damage = 1010

\* ComputeModifier has given the boost to an entity with a full shield
\* whose armour is exactly at the threshold, below the maximum.
C18_Witness ==
    /\ Returned("ComputeModifier")
    /\ fnArgs.shield = MaxHp
    /\ fnArgs.armour > 0
    /\ fnArgs.armour < fnArgs.max_armour
    /\ 100 * fnArgs.armour = fnArgs.max_hp_percent * fnArgs.max_armour
    /\ HasFirstBoost(fnOut.value)

(***************************************************************************)
(* Specification SpecKill: KillProcessor::ProcessCharacter on characters   *)
(* with inventories, fitments and ongoing operations.  The world is        *)
(*   [exists, dl      as in the fighters' rows,                            *)
(*    pos, ongoing, inventory, fitments, vehicle   per character id,       *)
(*    ongoings  the rows of the ongoing operations,                        *)
(*    regions   the prospecting_character of each region,                  *)
(*    loot      the ground loot of each tile]                              *)
(***************************************************************************)
EQUIPPED_FITMENT_DROP_PERCENT == 20

CharIds == {k[2] : k \in {x \in Keys : IsCharacter(x)}}

KillTiles == {<<0, 0>>, <<1, 0>>, <<5, 0>>}

RegionIds == {1, 2}

\* RegionMap::GetRegionId: the region a tile belongs to.
GetRegionId(pos) == IF pos[1] < 3 THEN 1 ELSE 2

\* The results ProbabilityRoll (percent, 100) can have.
ProbabilityRoll(percent) ==
    IF percent <= 0 THEN {FALSE}
    ELSE IF percent >= 100 THEN {TRUE}
    ELSE BOOLEAN

\* Inventory::operator+= and AddFungibleCount on item quantities.
AddInventory(a, b) == [i \in Items |-> a[i] + b[i]]

AddFungibleCount(inv, item, n) == [inv EXCEPT ![item] = @ + n]

\* The loop over pb.fitments (): a fitment whose roll succeeds is added to
\* inv once.
RECURSIVE AddFitments_Always(_, _, _, _)
AddFitments_Always(inv, fitments, rolls, i) ==
    IF i > Len(fitments) THEN inv
    ELSE AddFitments_Always(AddFungibleCount(inv, fitments[i], 1),
                            fitments, rolls, i + 1)

RECURSIVE AddFitments(_, _, _, _)
AddFitments(inv, fitments, rolls, i) ==
    IF i > Len(fitments) THEN inv
    ELSE AddFitments(IF rolls[i] THEN AddFungibleCount(inv, fitments[i], 1)
                     ELSE inv,
                     fitments, rolls, i + 1)

\* OngoingsTable::DeleteForCharacter.
DeleteForCharacter(ongoings, id) == {o \in ongoings : o.character # id}

\* Character::IsBusy: the character has an ongoing operation.
IsBusy(w, id) == w.ongoing[id] # Unset

\* OngoingsTable::GetById.
OngoingById(w, opId) == {o \in w.ongoings : o.id = opId}

\* The CHECKs of ProcessCharacter: the ongoing operation of a busy
\* character exists, and the region a prospecting character stands in
\* names it as prospector.
ProcessCharacterCheckFails(w, id) ==
    /\ IsBusy(w, id)
    /\ \/ OngoingById(w, w.ongoing[id]) = {}
       \/ \E o \in OngoingById(w, w.ongoing[id]) :
             /\ o.prospection
             /\ w.regions[GetRegionId(w.pos[id])] # id

CancelProspection_Never(w, id) == w

\* ProcessCharacter, first part: the prospection of a killed character is
\* cancelled in the region it stands in.
CancelProspection(w, id) ==
    IF IsBusy(w, id)
       /\ \E o \in OngoingById(w, w.ongoing[id]) : o.prospection
    THEN [w EXCEPT !.regions[GetRegionId(w.pos[id])] = Unset]
    ELSE w

\* ProcessCharacter, second part: the inventory and the fitments whose
\* roll succeeded are dropped on the ground where the character stands.
DropLoot(w, id, rolls) ==
    LET inv == AddFitments(AddInventory(NoLoot, w.inventory[id]),
                           w.fitments[id], rolls, 1)
    IN  IF inv = NoLoot THEN w
        ELSE [w EXCEPT !.loot[w.pos[id]] = AddInventory(@, inv)]

\* KillProcessor::DeleteCharacter with the ongoing operations.
DeleteCharacterRows(w, id) ==
    [DeleteCharacter(w, id) EXCEPT !.ongoings = DeleteForCharacter(@, id)]

\* KillProcessor::ProcessCharacter with everything it touches.
ProcessKilledCharacter(w, id, rolls) ==
    DeleteCharacterRows(DropLoot(CancelProspection(w, id), id, rolls), id)

\* The operations a character can be busy with: none, a prospection or
\* an armour repair; the id of the operation of character c is 100 + c.
OngoingKinds == {"none", "prospection", "armour_repair"}

OngoingRows(kinds) ==
    {[id |-> 100 + c, character |-> c, prospection |-> kinds[c] = "prospection"] :
        c \in {x \in CharIds : kinds[x] # "none"}}

KillInventories ==
    {NoLoot, [NoLoot EXCEPT ![1] = 2], [NoLoot EXCEPT ![1] = 1, ![3] = 2],
     [NoLoot EXCEPT ![2] = 1]}

KillFitments == {<<>>, <<1>>, <<2, 2>>, <<2, 1>>}

\* The worlds before the kills: the characters stand in two regions, a
\* region names the character that prospects it, and the ongoing
\* operations are those the characters are busy with.
KillWorlds ==
    {[exists |-> [k \in Keys |-> TRUE],
      dl |-> {[victim |-> 2, attacker |-> 3, height |-> StartHeight],
              [victim |-> 3, attacker |-> 2, height |-> StartHeight]},
      pos |-> pos,
      ongoing |-> [c \in CharIds |-> IF kinds[c] = "none" THEN Unset
                                     ELSE 100 + c],
      inventory |-> [c \in CharIds |-> IF c = 2 THEN inv
                                       ELSE [NoLoot EXCEPT ![1] = 1]],
      fitments |-> [c \in CharIds |-> IF c = 2 THEN fit ELSE <<3>>],
      vehicle |-> [c \in CharIds |-> 3],
      ongoings |-> OngoingRows(kinds),
      regions |-> [r \in RegionIds |->
                      IF \E c \in CharIds : kinds[c] = "prospection"
                                            /\ GetRegionId(pos[c]) = r
                      THEN CHOOSE c \in CharIds :
                              kinds[c] = "prospection" /\ GetRegionId(pos[c]) = r
                      ELSE Unset],
      loot |-> [t \in KillTiles |-> IF t = <<0, 0>> THEN ground ELSE NoLoot]] :
        pos \in [CharIds -> KillTiles], kinds \in [CharIds -> OngoingKinds],
        inv \in KillInventories, fit \in KillFitments,
        ground \in {NoLoot, [NoLoot EXCEPT ![1] = 1, ![3] = 1]}}

IsProspecting(w, c) == \E o \in w.ongoings : o.character = c /\ o.prospection

NoKill == [id |-> Unset, rolls |-> <<>>, before |-> <<>>, dead |-> {},
           aborted |-> FALSE]

KillInit ==
    /\ CdIdle
    /\ DetIdle
    /\ BlkIdle
    /\ OrdIdle
    /\ FnIdle
    /\ MapIdle
    /\ BldIdle
    /\ DynIdle
    /\ EntIdle
    /\ BusyIdle
    /\ AccIdle
    /\ world \in {w \in KillWorlds :
                    /\ w.pos[2] # <<1, 0>>
                    /\ w.pos[3] # <<5, 0>>
                    /\ \A c, d \in CharIds :
                          (c # d /\ IsProspecting(w, c) /\ IsProspecting(w, d))
                             => GetRegionId(w.pos[c]) # GetRegionId(w.pos[d])}
    /\ kill = NoKill

\* ProcessKills reaches a dead character: ProcessCharacter (id) with the
\* rolls made for the fitments.
KillCharacter ==
    /\ ~kill.aborted
    /\ \E id \in CharIds :
          /\ world.exists[<<TYPE_CHARACTER, id>>]
          /\ \E rolls \in [1..Len(world.fitments[id]) ->
                              ProbabilityRoll(EQUIPPED_FITMENT_DROP_PERCENT)] :
                IF ProcessCharacterCheckFails(world, id)
                THEN /\ kill' = [kill EXCEPT !.aborted = TRUE]
                     /\ world' = world
                ELSE /\ world' = ProcessKilledCharacter(world, id, rolls)
                     /\ kill' = [kill EXCEPT !.id = id, !.rolls = rolls,
                                             !.before = world,
                                             !.dead = @ \cup {id}]
    /\ UNCHANGED <<cdVars, detVars, blkVars, ordVars, fnVars, mapVars,
                   bldVars, dynVars, entVars, busyVars, accVars>>

KillNext == KillCharacter

SpecKill == KillInit /\ [][KillNext]_vars

\* C19: once a character is processed as killed nothing refers to it: it
\* has no row, no ongoing operation and no damage-list entry, as victim or
\* as attacker, and no region names it as prospecting character; no region
\* names a character that does not exist.
C19_NoReferences ==
    /\ ~kill.aborted
    /\ \A id \in kill.dead :
          /\ ~world.exists[<<TYPE_CHARACTER, id>>]
          /\ \A o \in world.ongoings : o.character # id /\ o.id # world.ongoing[id]
          /\ \A e \in world.dl : e.victim # id /\ e.attacker # id
          /\ \A r \in RegionIds : world.regions[r] # id
    /\ \A r \in RegionIds :
          world.regions[r] # Unset
             => world.exists[<<TYPE_CHARACTER, world.regions[r]>>]

\* A prospecting character with damage-list entries has been killed and
\* its region is free again, while the prospection of the other character
\* in the other region goes on.
C19_Witness ==
    /\ kill.id # Unset
    /\ kill.before.regions[GetRegionId(kill.before.pos[kill.id])] = kill.id
    /\ \E e \in kill.before.dl : e.victim = kill.id
    /\ \E o \in kill.before.ongoings : o.character = kill.id
    /\ world.regions[GetRegionId(kill.before.pos[kill.id])] = Unset
    /\ \E r \in RegionIds : world.regions[r] # Unset

\* How many of the fitments of the character killed last that are item i
\* had a successful roll.
FitmentsDropped(i) ==
    Cardinality({n \in 1..Len(kill.rolls) :
                    kill.rolls[n] /\ kill.before.fitments[kill.id][n] = i})

\* C20: after a character is killed, the ground loot on its tile is the
\* loot that was there plus its whole inventory plus one unit for each
\* equipped fitment whose roll succeeded; the vehicle is not dropped and
\* the loot of every other tile is unchanged.
C20_CharacterLoot ==
    (kill.id # Unset) =>
        \A t \in KillTiles, i \in Items :
            world.loot[t][i]
               = IF t = kill.before.pos[kill.id]
                 THEN kill.before.loot[t][i]
                         + kill.before.inventory[kill.id][i]
                         + FitmentsDropped(i)
                 ELSE kill.before.loot[t][i]

\* A character with an inventory and two fitments has been killed where
\* loot was lying already; one fitment was dropped and one was destroyed,
\* as was the vehicle.
C20_Witness ==
    /\ kill.id # Unset
    /\ kill.before.inventory[kill.id] # NoLoot
    /\ kill.before.loot[kill.before.pos[kill.id]] # NoLoot
    /\ Len(kill.rolls) = 2
    /\ kill.rolls[1] /\ ~kill.rolls[2]
    /\ kill.before.fitments[kill.id][1] # kill.before.fitments[kill.id][2]
    /\ LET v == kill.before.vehicle[kill.id]
           t == kill.before.pos[kill.id]
       IN  world.loot[t][v] = kill.before.loot[t][v]
                                 + kill.before.inventory[kill.id][v]

(***************************************************************************)
(* Specification SpecBld: ProcessKills on a dead set of characters on the  *)
(* map and of buildings.  A building holds account inventories, characters *)
(* inside, ongoing operations, orders and possibly a construction          *)
(* inventory; accounts hold coin balances.                                 *)
(***************************************************************************)
BldIds == {1, 4}

Accounts == {"andy", "domob"}

BldKeys ==
    {<<TYPE_CHARACTER, c>> : c \in CharIds} \cup {<<TYPE_BUILDING, b>> : b \in BldIds}

\* A key whose type is neither a character nor a building.
InvalidKey == <<INVALID_TYPE, 5>>

RECURSIVE SumOf(_, _)
SumOf(rows, val) ==
    IF rows = {} THEN 0
    ELSE LET x == CHOOSE y \in rows : TRUE
         IN  val[x] + SumOf(rows \ {x}, val)

CountIn(seq, item) == Cardinality({i \in DOMAIN seq : seq[i] = item})

\* InventoriesTable::QueryForBuilding and CharacterTable::QueryForBuilding.
InventoriesInBuilding(w, id) == {r \in w.accountInv : r.building = id}

CharactersInBuilding(w, id) ==
    {c \in CharIds : w.exists[<<TYPE_CHARACTER, c>>] /\ w.inBuilding[c] = id}

\* What one character inside the building adds to totalInv: its
\* inventory, its vehicle if it has one, and every fitment.
CharacterItems(w, c) ==
    [i \in Items |-> w.inventory[c][i]
                     + (IF w.vehicle[c] # Unset /\ w.vehicle[c] = i THEN 1 ELSE 0)
                     + CountIn(w.fitments[c], i)]

\* What the ongoing operations of the building add to totalInv: the
\* original of a blueprint copy, and the original of an item construction
\* that has one.
OngoingOriginals(w, id) ==
    [i \in Items |->
        Cardinality({o \in w.ongoings :
            /\ o.building = id
            /\ \/ o.kind = "blueprint_copy" /\ o.original = i
               \/ /\ o.kind = "item_construction"
                  /\ o.original # Unset
                  /\ o.original = i})]

\* DexOrderTable::GetReservedCoins: per account, the coins reserved in
\* the open bids inside the building.
GetReservedCoins(w, id) ==
    [a \in {o.account : o \in {x \in w.orders : x.building = id /\ x.bid}} |->
        LET bids == {o \in w.orders : o.building = id /\ o.bid /\ o.account = a}
        IN  SumOf(bids, [o \in bids |-> o.coins])]

\* DexOrderTable::GetReservedQuantities, summed over the accounts: the
\* items reserved in the open asks inside the building.
GetReservedQuantities(w, id) ==
    [i \in Items |->
        LET asks == {o \in w.orders : o.building = id /\ ~o.bid /\ o.item = i}
        IN  SumOf(asks, [o \in asks |-> o.qty])]

\* totalInv when the drop loop starts.
TotalInv(w, id) ==
    LET invs == InventoriesInBuilding(w, id)
        chars == CharactersInBuilding(w, id)
    IN  [i \in Items |->
            SumOf(invs, [r \in invs |-> r.inv[i]])
            + SumOf(chars, [c \in chars |-> CharacterItems(w, c)[i]])
            + OngoingOriginals(w, id)[i]
            + GetReservedQuantities(w, id)[i]
            + (IF w.has_construction_inventory[id]
               THEN w.construction_inventory[id][i] ELSE 0)]

\* The loop over the characters inside: each of them is deleted.
RECURSIVE DeleteCharactersInside(_, _)
DeleteCharactersInside(w, cs) ==
    IF cs = {} THEN w
    ELSE LET c == CHOOSE x \in cs : \A y \in cs : x <= y
         IN  DeleteCharactersInside(DeleteCharacterRows(w, c), cs \ {c})

\* The refund made on every bid of every building.
RefundBids_Everywhere(w, id) ==
    [w EXCEPT !.balance =
        [a \in Accounts |->
            LET bids == {o \in w.orders : o.bid /\ o.account = a}
            IN  w.balance[a] + SumOf(bids, [o \in bids |-> o.coins])]]

\* The loop over GetReservedCoins: AddBalance on each account named.
RefundBids(w, id) ==
    LET coins == GetReservedCoins(w, id)
    IN  [w EXCEPT !.balance =
            [a \in Accounts |-> IF a \in DOMAIN coins
                                THEN w.balance[a] + coins[a]
                                ELSE w.balance[a]]]

\* The drop loop over invItems; the i-th ProbabilityRoll returns rolls[i].
RECURSIVE DropLoop(_, _, _, _, _)
DropLoop(loot, totalInv, invItems, rolls, i) ==
    IF i > Len(invItems) THEN loot
    ELSE DropLoop(DropEntry(loot, invItems[i], totalInv[invItems[i]], rolls[i]),
                  totalInv, invItems, rolls, i + 1)

\* The rows of the building deleted except for its orders.
DeleteBuildingRows_KeepOrders(w, id) ==
    [w EXCEPT !.accountInv = {r \in @ : r.building # id},
              !.ongoings = {o \in @ : o.building # id},
              !.exists[<<TYPE_BUILDING, id>>] = FALSE]

\* RemoveBuilding, DeleteForBuilding (ongoings and orders) and DeleteById.
DeleteBuildingRows(w, id) ==
    [w EXCEPT !.accountInv = {r \in @ : r.building # id},
              !.ongoings = {o \in @ : o.building # id},
              !.orders = {o \in @ : o.building # id},
              !.exists[<<TYPE_BUILDING, id>>] = FALSE]

\* The CHECKs of ProcessBuilding: the accounts refunded and the building
\* exist.
ProcessBuildingCheckFails(w, id) ==
    \/ ~w.exists[<<TYPE_BUILDING, id>>]
    \/ \E a \in DOMAIN GetReservedCoins(w, id) : a \notin DOMAIN w.balance

\* The entries of the proto map of totalInv: the items with a quantity.
ProtoInvMapItems(totalInv) == {i \in Items : totalInv[i] > 0}

\* KillProcessor::ProcessBuilding with everything it touches; the proto
\* map of totalInv is iterated in order h.
ProcessDestroyedBuilding(w, id, h, rolls) ==
    LET totalInv == TotalInv(w, id)
        w1 == RefundBids(DeleteCharactersInside(w, CharactersInBuilding(w, id)), id)
        w2 == [w1 EXCEPT !.loot[w.centre[id]] =
                   DropLoop(@, totalInv, InvItems(h), rolls, 1)]
    IN  DeleteBuildingRows(w2, id)

\* The rolls ProcessBuilding and ProcessCharacter make, in the order they
\* are made, with the fighter and the item they are made for.
BuildingDraws(id, invItems, rolls) ==
    [i \in 1..Len(invItems) |->
        [key |-> <<TYPE_BUILDING, id>>, item |-> invItems[i], roll |-> rolls[i]]]

CharacterDraws(w, id, rolls) ==
    [i \in 1..Len(w.fitments[id]) |->
        [key |-> <<TYPE_CHARACTER, id>>, item |-> w.fitments[id][i],
         roll |-> rolls[i]]]

\* What the buildings hold before the kills, in four variants.
BldAccountInv(k) ==
    CASE k = 1 -> {[building |-> 1, account |-> "andy", inv |-> [NoLoot EXCEPT ![1] = 2]]}
      [] k = 2 -> {[building |-> 1, account |-> "andy", inv |-> [NoLoot EXCEPT ![1] = 1]],
                   [building |-> 1, account |-> "domob", inv |-> [NoLoot EXCEPT ![2] = 1]],
                   [building |-> 4, account |-> "andy", inv |-> [NoLoot EXCEPT ![3] = 1]]}
      [] OTHER -> {}

Bid(n, b, a, coins) ==
    [id |-> n, building |-> b, account |-> a, bid |-> TRUE, coins |-> coins,
     item |-> 1, qty |-> 1]

Ask(n, b, a, item, qty) ==
    [id |-> n, building |-> b, account |-> a, bid |-> FALSE, coins |-> 0,
     item |-> item, qty |-> qty]

BldOrders(k) ==
    CASE k = 1 -> {Bid(1, 1, "andy", 50), Bid(2, 4, "domob", 7)}
      [] k = 2 -> {Bid(1, 1, "andy", 50), Bid(2, 1, "andy", 5), Bid(3, 1, "domob", 20),
                   Ask(4, 1, "domob", 2, 1), Ask(5, 4, "andy", 1, 2),
                   Bid(6, 4, "domob", 7)}
      [] k = 3 -> {Ask(1, 1, "andy", 3, 2), Bid(2, 4, "domob", 7)}
      [] OTHER -> {}

BuildingOp(n, b, kind, original) ==
    [id |-> n, character |-> Unset, building |-> b, prospection |-> FALSE,
     kind |-> kind, original |-> original]

BldOngoings(k) ==
    CASE k = 2 -> {BuildingOp(201, 1, "blueprint_copy", 3)}
      [] k = 3 -> {BuildingOp(201, 1, "item_construction", 1),
                   BuildingOp(202, 1, "item_construction", Unset),
                   BuildingOp(203, 4, "blueprint_copy", 2)}
      [] OTHER -> {}

BldVariants == 1..4

\* Where a character is: on the map or inside one of the buildings.
BldPlaces == {Unset} \cup BldIds

\* The worlds before the kills.  Building 1 stands at (0, 0), building 4
\* is a foundation at (5, 0) with a construction inventory; a character
\* on the map stands at (1, 0), and a character inside a building still
\* has that tile in its row; a busy character repairs its armour.
BldWorlds ==
    {[exists |-> [k \in BldKeys |-> TRUE],
      dl |-> {[victim |-> 2, attacker |-> 3, height |-> StartHeight],
              [victim |-> 3, attacker |-> 2, height |-> StartHeight]},
      pos |-> [c \in CharIds |-> <<1, 0>>],
      inBuilding |-> place,
      ongoing |-> [c \in CharIds |-> IF c \in busy THEN 100 + c ELSE Unset],
      inventory |-> [c \in CharIds |-> IF c = 2 THEN [NoLoot EXCEPT ![1] = 1]
                                       ELSE NoLoot],
      fitments |-> [c \in CharIds |-> IF c = 2 THEN <<2>> ELSE <<3, 3>>],
      vehicle |-> [c \in CharIds |-> IF c = 2 THEN 3 ELSE Unset],
      ongoings |-> BldOngoings(v)
                   \cup {[id |-> 100 + c, character |-> c, building |-> Unset,
                          prospection |-> FALSE, kind |-> "armour_repair",
                          original |-> Unset] : c \in busy},
      regions |-> [r \in RegionIds |-> Unset],
      loot |-> [t \in KillTiles |-> IF t = <<0, 0>> THEN [NoLoot EXCEPT ![1] = 1]
                                    ELSE NoLoot],
      centre |-> [b \in BldIds |-> IF b = 1 THEN <<0, 0>> ELSE <<5, 0>>],
      accountInv |-> BldAccountInv(v),
      balance |-> [a \in Accounts |-> IF a = "andy" THEN 100 ELSE 0],
      orders |-> BldOrders(v),
      has_construction_inventory |-> [b \in BldIds |-> b = 4],
      construction_inventory |-> [b \in BldIds |->
                                     IF b = 4 THEN [NoLoot EXCEPT ![1] = 1, ![2] = 2]
                                     ELSE NoLoot]] :
        place \in [CharIds -> BldPlaces], busy \in SUBSET {2}, v \in BldVariants}

\* The dead sets ProcessKills is called with: fighters on the map, and
\* possibly a key of another type.
DeadSets(w) ==
    {d \in SUBSET (BldKeys \cup {InvalidKey}) :
        /\ d # {}
        /\ \A c \in CharIds : <<TYPE_CHARACTER, c>> \in d => w.inBuilding[c] = Unset}

NoBldKill == [dead |-> {}, todo |-> <<>>, done |-> <<>>, draws |-> <<>>,
              last |-> <<>>, before |-> <<>>, start |-> <<>>, aborted |-> FALSE]

BldInit ==
    /\ CdIdle
    /\ DetIdle
    /\ BlkIdle
    /\ OrdIdle
    /\ FnIdle
    /\ MapIdle
    /\ KillIdle
    /\ DynIdle
    /\ EntIdle
    /\ BusyIdle
    /\ AccIdle
    /\ bworld \in BldWorlds
    /\ \E d \in DeadSets(bworld) :
          bkill = [NoBldKill EXCEPT !.dead = d, !.todo = KeySeq(d),
                                    !.before = bworld, !.start = bworld]

BldOthersUnchanged ==
    UNCHANGED <<cdVars, detVars, blkVars, ordVars, fnVars, mapVars, killVars,
                dynVars, entVars, busyVars, accVars>>

BldStepDone(draws) ==
    [bkill EXCEPT !.todo = Tail(@), !.done = Append(@, Head(bkill.todo)),
                  !.draws = @ \o draws, !.last = draws, !.before = bworld]

\* ProcessKills reaches a dead character: ProcessCharacter.
BldKillCharacter ==
    /\ ~bkill.aborted
    /\ bkill.todo # <<>>
    /\ Head(bkill.todo)[1] = TYPE_CHARACTER
    /\ LET id == Head(bkill.todo)[2]
       IN  \E rolls \in [1..Len(bworld.fitments[id]) ->
                            ProbabilityRoll(EQUIPPED_FITMENT_DROP_PERCENT)] :
              IF ProcessCharacterCheckFails(bworld, id)
              THEN /\ bkill' = [bkill EXCEPT !.aborted = TRUE]
                   /\ bworld' = bworld
              ELSE \E w2 \in {ProcessKilledCharacter(bworld, id, rolls)} :
                      /\ bworld' = w2
                      /\ bkill' = BldStepDone(CharacterDraws(bworld, id, rolls))
    /\ BldOthersUnchanged

\* ProcessKills reaches a destroyed building: ProcessBuilding.
BldKillBuilding ==
    /\ ~bkill.aborted
    /\ bkill.todo # <<>>
    /\ Head(bkill.todo)[1] = TYPE_BUILDING
    /\ LET id == Head(bkill.todo)[2]
       IN  \E h \in PermSeqs(ProtoInvMapItems(TotalInv(bworld, id))) :
           \E rolls \in [1..Len(h) ->
                            ProbabilityRoll(BUILDING_INVENTORY_DROP_PERCENT)] :
              IF ProcessBuildingCheckFails(bworld, id)
              THEN /\ bkill' = [bkill EXCEPT !.aborted = TRUE]
                   /\ bworld' = bworld
              ELSE \E w2 \in {ProcessDestroyedBuilding(bworld, id, h, rolls)} :
                      /\ bworld' = w2
                      /\ bkill' = BldStepDone(BuildingDraws(id, InvItems(h), rolls))
    /\ BldOthersUnchanged

\* ProcessKills reaches a key of another type: LOG (FATAL).
BldKillInvalid ==
    /\ ~bkill.aborted
    /\ bkill.todo # <<>>
    /\ Head(bkill.todo)[1] \notin {TYPE_CHARACTER, TYPE_BUILDING}
    /\ bkill' = [bkill EXCEPT !.aborted = TRUE]
    /\ bworld' = bworld
    /\ BldOthersUnchanged

BldNext == BldKillCharacter \/ BldKillBuilding \/ BldKillInvalid

SpecBld == BldInit /\ [][BldNext]_vars

\* The fighter ProcessKills processed last, and the world before that.
LastKilled == bkill.done[Len(bkill.done)]

BuildingJustDestroyed ==
    bkill.done # <<>> /\ LastKilled[1] = TYPE_BUILDING

CharacterJustKilled ==
    bkill.done # <<>> /\ LastKilled[1] = TYPE_CHARACTER

\* The coins account a has reserved in open bids inside building b.
BidCoins(w, b, a) ==
    LET bids == {o \in w.orders : o.bid /\ o.building = b /\ o.account = a}
    IN  SumOf(bids, [o \in bids |-> o.coins])

\* C21: when a building is destroyed, whatever the drop rolls are, every
\* account's balance grows by exactly the coins it had reserved in open
\* bids inside that building, so an account without bids there keeps its
\* balance; the kill of a character changes no balance.
C21_BidsRefunded ==
    /\ BuildingJustDestroyed =>
          \A a \in Accounts :
             bworld.balance[a]
                = bkill.before.balance[a] + BidCoins(bkill.before, LastKilled[2], a)
    /\ CharacterJustKilled => bworld.balance = bkill.before.balance

\* Building 1 has been destroyed while andy had two bids and domob one
\* inside it and domob had another bid in building 4: andy got 55 coins,
\* domob 20, and some roll of the destruction failed.
C21_Witness ==
    /\ BuildingJustDestroyed
    /\ LastKilled[2] = 1
    /\ BidCoins(bkill.before, 1, "andy") = 55
    /\ BidCoins(bkill.before, 4, "domob") = 7
    /\ bworld.balance = [a \in Accounts |-> IF a = "andy" THEN 155 ELSE 20]
    /\ \E i \in DOMAIN bkill.last : ~bkill.last[i].roll
    /\ \E i \in DOMAIN bkill.last : bkill.last[i].roll

\* The characters that were inside building b when ProcessKills started.
WereInside(b) == {c \in CharIds : bkill.start.inBuilding[c] = b}

NoRowOfCharacter(w, c) ==
    /\ ~w.exists[<<TYPE_CHARACTER, c>>]
    /\ \A o \in w.ongoings : o.character # c
    /\ \A e \in w.dl : e.victim # c /\ e.attacker # c

NoRowOfBuilding(w, b) ==
    /\ ~w.exists[<<TYPE_BUILDING, b>>]
    /\ \A r \in w.accountInv : r.building # b
    /\ \A o \in w.ongoings : o.building # b
    /\ \A o \in w.orders : o.building # b

\* C22: once a building is destroyed, its row, its account inventories,
\* its ongoing operations and its orders are gone, and so are the
\* characters that were inside with their ongoing operations and their
\* damage-list entries; the destruction changes the ground loot at the
\* building centre only; and a character that is inside a building is
\* inside an existing building.
C22_NothingRefersToBuilding ==
    /\ \A b \in BldIds :
          <<TYPE_BUILDING, b>> \in {bkill.done[i] : i \in DOMAIN bkill.done} =>
             /\ NoRowOfBuilding(bworld, b)
             /\ \A c \in WereInside(b) : NoRowOfCharacter(bworld, c)
    /\ BuildingJustDestroyed =>
          \A t \in KillTiles :
             t # bkill.before.centre[LastKilled[2]] =>
                bworld.loot[t] = bkill.before.loot[t]
    /\ \A c \in CharIds :
          (bworld.exists[<<TYPE_CHARACTER, c>>] /\ bworld.inBuilding[c] # Unset) =>
             bworld.exists[<<TYPE_BUILDING, bworld.inBuilding[c]>>]

\* Building 1 has been destroyed with a busy character inside, with
\* account inventories, an ongoing operation and orders, while the other
\* building and its rows are still there.
C22_Witness ==
    /\ BuildingJustDestroyed
    /\ LastKilled[2] = 1
    /\ 2 \in WereInside(1)
    /\ bkill.before.ongoing[2] # Unset
    /\ \E o \in bkill.before.ongoings : o.character = 2
    /\ \E r \in bkill.before.accountInv : r.building = 1
    /\ \E o \in bkill.before.ongoings : o.building = 1
    /\ \E o \in bkill.before.orders : o.building = 1
    /\ NoRowOfBuilding(bworld, 1)
    /\ NoRowOfCharacter(bworld, 2)
    /\ bworld.exists[<<TYPE_BUILDING, 4>>]
    /\ \E o \in bworld.orders : o.building = 4

\* C23: the destruction of a building makes its rolls for the item types
\* of the aggregated inventory in ascending order of the item, one roll
\* for each type that has a quantity; at the building centre the ground
\* loot of a type grows by the whole aggregated quantity if the roll of
\* the type succeeded and stays as it was otherwise.
C23_BuildingDropRolls ==
    BuildingJustDestroyed =>
       LET b == LastKilled[2]
           old == bkill.before
           total == TotalInv(old, b)
           rolled == bkill.last
       IN  /\ \A i, j \in DOMAIN rolled : i < j => rolled[i].item < rolled[j].item
           /\ {rolled[i].item : i \in DOMAIN rolled} = {x \in Items : total[x] > 0}
           /\ \A x \in Items :
                 bworld.loot[old.centre[b]][x]
                    = old.loot[old.centre[b]][x]
                      + (IF \E i \in DOMAIN rolled : rolled[i].item = x /\ rolled[i].roll
                         THEN total[x] ELSE 0)

\* Building 1 has been destroyed with character 2 inside, two account
\* inventories, a blueprint copy and an ask: the aggregate was 2 of item
\* 1 (account, character inventory), 3 of item 2 (account, fitment, ask)
\* and 2 of item 3 (vehicle, original of the copy); the rolls of items 1
\* and 3 succeeded and that of item 2 failed.
C23_Witness ==
    /\ BuildingJustDestroyed
    /\ LastKilled[2] = 1
    /\ WereInside(1) = {2}
    /\ TotalInv(bkill.before, 1) = [x \in Items |-> IF x = 2 THEN 3 ELSE 2]
    /\ bkill.last = <<[key |-> <<TYPE_BUILDING, 1>>, item |-> 1, roll |-> TRUE],
                      [key |-> <<TYPE_BUILDING, 1>>, item |-> 2, roll |-> FALSE],
                      [key |-> <<TYPE_BUILDING, 1>>, item |-> 3, roll |-> TRUE]>>
    /\ bworld.loot[<<0, 0>>] = [x \in Items |-> IF x = 1 THEN 3 ELSE IF x = 2 THEN 0 ELSE 2]

\* The foundation 4 has been destroyed and the whole construction
\* inventory has been dropped at its centre.
C23_ConstructionInventoryDropped ==
    /\ BuildingJustDestroyed
    /\ LastKilled[2] = 4
    /\ WereInside(4) = {}
    /\ \A r \in bkill.before.accountInv : r.building # 4
    /\ \A o \in bkill.before.orders : o.building # 4 \/ o.bid
    /\ \A o \in bkill.before.ongoings : o.building # 4
    /\ bworld.loot[<<5, 0>>] = bkill.before.construction_inventory[4]
    /\ bworld.loot[<<5, 0>>] # NoLoot

\* C24: ProcessKills processes the dead fighters in ascending order of
\* (type, id), the characters before the buildings, and the rolls are made
\* in that order; a run that finishes has processed exactly the dead set;
\* with a dead key of another type the run never finishes, it aborts.
C24_KillOrder ==
    /\ \A i, j \in DOMAIN bkill.done : i < j => KeyLess(bkill.done[i], bkill.done[j])
    /\ \A i, j \in DOMAIN bkill.draws :
          i < j => ~KeyLess(bkill.draws[j].key, bkill.draws[i].key)
    /\ \A i \in DOMAIN bkill.done :
          \A k \in bkill.dead : KeyLess(k, bkill.done[i]) =>
             \E j \in 1..(i - 1) : bkill.done[j] = k
    /\ (bkill.todo = <<>> /\ ~bkill.aborted) =>
          {bkill.done[i] : i \in DOMAIN bkill.done} = bkill.dead
    /\ (\E k \in bkill.dead : k[1] \notin {TYPE_CHARACTER, TYPE_BUILDING}) =>
          bkill.todo # <<>>
    /\ bkill.aborted =>
          Head(bkill.todo)[1] \notin {TYPE_CHARACTER, TYPE_BUILDING}

\* Two characters and two buildings have been processed in the order
\* character 2, character 3, building 1, building 4, with rolls made for
\* each of them.
C24_Witness ==
    /\ bkill.done = <<<<TYPE_CHARACTER, 2>>, <<TYPE_CHARACTER, 3>>,
                      <<TYPE_BUILDING, 1>>, <<TYPE_BUILDING, 4>>>>
    /\ bkill.todo = <<>>
    /\ \A k \in bkill.dead : \E i \in DOMAIN bkill.draws : bkill.draws[i].key = k

\* A dead set with a key of another type has aborted ProcessKills.
C24_AbortOnOtherType ==
    /\ bkill.aborted
    /\ InvalidKey \in bkill.dead
    /\ Cardinality(bkill.dead) > 1

\* C25: a regeneration step of one HP type that returns leaves the full HP
\* at most max and not below the old full HP, the partial HP below 1000
\* and 0 when the full HP is max, (full, partial) lexicographically not
\* below the old pair, and it reports a change exactly if the full or the
\* partial HP differs from the old one.
C25_RegenerateHpType ==
    Returned("RegenerateHpType") =>
        LET new == fnOut.value
        IN  /\ new.cur <= fnArgs.max
            /\ new.cur >= fnArgs.oldCur
            /\ new.milli \in 0..999
            /\ new.cur = fnArgs.max => new.milli = 0
            /\ new.cur > fnArgs.oldCur
                  \/ (new.cur = fnArgs.oldCur /\ new.milli >= fnArgs.oldMilli)
            /\ new.changed <=>
                  (new.cur # fnArgs.oldCur \/ new.milli # fnArgs.oldMilli)

\* A step from (2, 600) with a rate that would lead beyond the maximum of
\* 3 has returned (3, 0) and reported a change.
C25_Witness ==
    /\ Returned("RegenerateHpType")
    /\ fnArgs.max = 3
    /\ fnArgs.oldCur = 2
    /\ fnArgs.oldMilli = 600
    /\ fnArgs.mhpRate = 2500
    /\ fnOut.value = [cur |-> 3, milli |-> 0, changed |-> TRUE]

\* A step with rate 0 has returned the old values and reported no change.
C25_NoChange ==
    /\ Returned("RegenerateHpType")
    /\ fnArgs.oldCur < fnArgs.max
    /\ fnArgs.oldMilli > 0
    /\ fnOut.value = [cur |-> fnArgs.oldCur, milli |-> fnArgs.oldMilli,
                      changed |-> FALSE]

\* A step whose sum of old partial HP and rate wrapped around has failed
\* the CHECK at the end of RegenerateHpType.
C25_WrapAborts ==
    /\ fnArgs.fn = "RegenerateHpType"
    /\ fnOut.called
    /\ fnOut.aborted
    /\ fnArgs.oldMilli + fnArgs.mhpRate >= UnsignedModulus

\* C26: MovementEdgeWeight returns NO_CONNECTION when the base weight is
\* NO_CONNECTION; else, when the destination lies in a starter zone, the
\* base weight divided by 3 and rounded down for the faction of the zone
\* and NO_CONNECTION for another faction; else the base weight.  The
\* starter zone of the source tile does not enter.
C26_MovementEdgeWeight ==
    Returned("MovementEdgeWeight") =>
        LET w == fnArgs.baseWeight
            zone == StarterFor(fnArgs.to)
        IN  /\ w = NO_CONNECTION => fnOut.value = NO_CONNECTION
            /\ (w # NO_CONNECTION /\ zone = fnArgs.f) =>
                  /\ 3 * fnOut.value <= w
                  /\ w < 3 * (fnOut.value + 1)
            /\ (w # NO_CONNECTION /\ zone \in MoveFactions \ {fnArgs.f}) =>
                  fnOut.value = NO_CONNECTION
            /\ (w # NO_CONNECTION /\ zone = "INVALID") => fnOut.value = w

\* A RED character leaving the GREEN starter zone for the RED one on an
\* edge of weight 1001 has got the weight 333.
C26_Witness ==
    /\ Returned("MovementEdgeWeight")
    /\ fnArgs.f = "RED"
    /\ StarterFor(fnArgs.from) = "GREEN"
    /\ StarterFor(fnArgs.to) = "RED"
    /\ fnArgs.baseWeight = 1001
    /\ fnOut.value = 333

\* A BLUE character leaving the RED starter zone for a tile outside the
\* starter zones has got the base weight.
C26_SourceZoneIgnored ==
    /\ Returned("MovementEdgeWeight")
    /\ fnArgs.f = "BLUE"
    /\ StarterFor(fnArgs.from) = "RED"
    /\ StarterFor(fnArgs.to) = "INVALID"
    /\ fnArgs.baseWeight = 3
    /\ fnOut.value = 3

(***************************************************************************)
(* Specification SpecDyn: the dynamic-obstacle index.  It is built from    *)
(* the characters with a position and the buildings of the database, and   *)
(* then vehicles are added and removed and buildings are added.            *)
(***************************************************************************)
MaxDynCalls == 4

DynFactions == {"RED", "GREEN", "BLUE"}

\* The tiles vehicles stand on, and the buildings there are: their type
\* and centre.  Buildings 1 and 3 overlap on (1, 0).
VehicleTiles == {<<1, 0>>, <<5, 5>>}

DynBuildings ==
    [b \in 1..4 |->
        CASE b = 1 -> [type |-> "checkmark", centre |-> <<0, 0>>]
          [] b = 2 -> [type |-> "checkmark", centre |-> <<10, 5>>]
          [] b = 3 -> [type |-> "huesli", centre |-> <<1, 0>>]
          [] OTHER -> [type |-> "huesli", centre |-> <<5, 5>>]]

\* shape_tiles of the building types, relative to the centre.
ShapeTiles(type) ==
    IF type = "checkmark" THEN {<<0, 0>>, <<1, 0>>, <<0, 1>>, <<0, 2>>}
    ELSE {<<0, 0>>}

\* The tiles a building covers; the shape is not rotated.
BuildingShape(b) ==
    {<<b.centre[1] + t[1], b.centre[2] + t[2]>> : t \in ShapeTiles(b.type)}

DynTiles ==
    VehicleTiles \cup {<<9, 9>>}
        \cup UNION {BuildingShape(DynBuildings[b]) : b \in DOMAIN DynBuildings}

\* HasVehicle (c, f), HasVehicle (c), IsBuilding (c).
HasVehicle(dyn, c, f) ==
    <<c, f>> \in DOMAIN dyn.vehicles /\ dyn.vehicles[<<c, f>>] > 0

HasAnyVehicle(dyn, c) == \E f \in DynFactions : HasVehicle(dyn, c, f)

IsBuilding(dyn, c) == c \in dyn.buildings

\* IsFree looking at the buildings only.
IsFree_BuildingsOnly(dyn, c) == ~IsBuilding(dyn, c)

IsFree(dyn, c) == ~IsBuilding(dyn, c) /\ ~HasAnyVehicle(dyn, c)

\* AddVehicle setting a flag for the tile and faction.
AddVehicle_Flag(dyn, c, f) == [dyn EXCEPT !.vehicles[<<c, f>>] = 1]

AddVehicle(dyn, c, f) == [dyn EXCEPT !.vehicles[<<c, f>>] = @ + 1]

RemoveVehicle(dyn, c, f) == [dyn EXCEPT !.vehicles[<<c, f>>] = @ - 1]

\* AddBuilding accepting every building.
AddBuilding_Always(dyn, b) ==
    [ok |-> TRUE, dyn |-> [dyn EXCEPT !.buildings = @ \cup BuildingShape(b)]]

\* AddBuilding (type, trafo, centre, shape): whether the building was
\* added, and the index afterwards.
AddBuilding(dyn, b) ==
    IF \E t \in BuildingShape(b) : IsBuilding(dyn, t)
    THEN [ok |-> FALSE, dyn |-> dyn]
    ELSE [ok |-> TRUE, dyn |-> [dyn EXCEPT !.buildings = @ \cup BuildingShape(b)]]

\* The databases the index is built from: the characters with their
\* faction and their position (Unset inside a building), and the
\* buildings.
DynDatabases ==
    {[characters |-> {}, buildings |-> {}],
     [characters |-> {[id |-> 1, faction |-> "RED", pos |-> <<5, 5>>, inside |-> FALSE],
                      [id |-> 2, faction |-> "GREEN", pos |-> <<5, 5>>, inside |-> FALSE],
                      [id |-> 3, faction |-> "BLUE", pos |-> <<5, 5>>, inside |-> TRUE]},
      buildings |-> {}],
     [characters |-> {[id |-> 1, faction |-> "RED", pos |-> <<1, 0>>, inside |-> TRUE],
                      [id |-> 2, faction |-> "RED", pos |-> <<5, 5>>, inside |-> FALSE],
                      [id |-> 3, faction |-> "RED", pos |-> <<5, 5>>, inside |-> FALSE]},
      buildings |-> {1}]}

\* The vehicles of the database per tile and faction.
VehiclesFromDb(db) ==
    [p \in VehicleTiles \X DynFactions |->
        Cardinality({c \in db.characters :
                        ~c.inside /\ c.pos = p[1] /\ c.faction = p[2]})]

\* DynObstacles (db, ctx).
NewDynObstacles(db) ==
    [vehicles |-> VehiclesFromDb(db),
     buildings |-> UNION {BuildingShape(DynBuildings[b]) : b \in db.buildings},
     fatal |-> ""]

NoDynCall == [op |-> "none", c |-> <<0, 0>>, f |-> "RED", b |-> 0, ok |-> TRUE,
              before |-> <<>>]

DynInit ==
    /\ CdIdle
    /\ DetIdle
    /\ BlkIdle
    /\ OrdIdle
    /\ FnIdle
    /\ MapIdle
    /\ KillIdle
    /\ BldIdle
    /\ EntIdle
    /\ BusyIdle
    /\ AccIdle
    /\ \E db \in DynDatabases :
          /\ dynSt = NewDynObstacles(db)
          /\ dynIn = [db |-> db, calls |-> 0, added |-> VehiclesFromDb(db),
                      removed |-> [p \in VehicleTiles \X DynFactions |-> 0],
                      accepted |-> db.buildings, last |-> NoDynCall]

DynOthersUnchanged ==
    UNCHANGED <<cdVars, detVars, blkVars, ordVars, fnVars, mapVars, killVars,
                bldVars, entVars, busyVars, accVars>>

DynCanCall == dynSt.fatal = "" /\ dynIn.calls < MaxDynCalls

DynAddVehicle ==
    /\ DynCanCall
    /\ \E c \in VehicleTiles, f \in DynFactions :
          /\ dynSt' = AddVehicle(dynSt, c, f)
          /\ dynIn' = [dynIn EXCEPT !.calls = @ + 1, !.added[<<c, f>>] = @ + 1,
                                    !.last = [NoDynCall EXCEPT !.op = "AddVehicle",
                                                               !.c = c, !.f = f,
                                                               !.before = dynSt]]
    /\ DynOthersUnchanged

\* RemoveVehicle is called for a vehicle that is in the index.
DynRemoveVehicle ==
    /\ DynCanCall
    /\ \E c \in VehicleTiles, f \in DynFactions :
          /\ HasVehicle(dynSt, c, f)
          /\ dynSt' = RemoveVehicle(dynSt, c, f)
          /\ dynIn' = [dynIn EXCEPT !.calls = @ + 1, !.removed[<<c, f>>] = @ + 1,
                                    !.last = [NoDynCall EXCEPT !.op = "RemoveVehicle",
                                                               !.c = c, !.f = f,
                                                               !.before = dynSt]]
    /\ DynOthersUnchanged

DynCalled(op, b, res) ==
    [dynIn EXCEPT !.calls = @ + 1,
                  !.accepted = IF res.ok THEN @ \cup {b} ELSE @,
                  !.last = [NoDynCall EXCEPT !.op = op, !.b = b, !.ok = res.ok,
                                             !.before = dynSt]]

\* AddBuilding (type, trafo, centre, shape), which returns a bool.
DynAddBuildingBool ==
    /\ DynCanCall
    /\ \E b \in DOMAIN DynBuildings :
          \E res \in {AddBuilding(dynSt, DynBuildings[b])} :
             /\ dynSt' = res.dyn
             /\ dynIn' = DynCalled("AddBuildingBool", b, res)
    /\ DynOthersUnchanged

\* AddBuilding (const Building&), which CHECKs that the building was added.
DynAddBuildingHandle ==
    /\ DynCanCall
    /\ \E b \in DOMAIN DynBuildings :
          \E res \in {AddBuilding(dynSt, DynBuildings[b])} :
             /\ dynSt' = IF res.ok THEN res.dyn
                         ELSE [dynSt EXCEPT !.fatal = "Error adding building"]
             /\ dynIn' = DynCalled("AddBuildingHandle", b, res)
    /\ DynOthersUnchanged

DynNext ==
    \/ DynAddVehicle
    \/ DynRemoveVehicle
    \/ DynAddBuildingBool
    \/ DynAddBuildingHandle

SpecDyn == DynInit /\ [][DynNext]_vars

\* C27: HasVehicle (c, f) holds exactly if more vehicles of faction f have
\* been added at c, those of the database included, than removed;
\* HasVehicle (c) holds exactly if that is so for some faction; and
\* AddVehicle or RemoveVehicle on (c, f) leaves the answer for every
\* other tile and faction as it was.
C27_VehicleCounts ==
    /\ \A c \in DynTiles, f \in DynFactions :
          HasVehicle(dynSt, c, f) <=>
             /\ c \in VehicleTiles
             /\ dynIn.added[<<c, f>>] > dynIn.removed[<<c, f>>]
    /\ \A c \in DynTiles :
          HasAnyVehicle(dynSt, c) <=>
             /\ c \in VehicleTiles
             /\ \E f \in DynFactions : dynIn.added[<<c, f>>] > dynIn.removed[<<c, f>>]
    /\ dynIn.last.op \in {"AddVehicle", "RemoveVehicle"} =>
          \A c \in DynTiles, f \in DynFactions :
             <<c, f>> # <<dynIn.last.c, dynIn.last.f>> =>
                HasVehicle(dynSt, c, f) = HasVehicle(dynIn.last.before, c, f)

\* Two RED vehicles and a GREEN one were added on a tile and one RED and
\* the GREEN one removed again: the tile has a RED vehicle, and no GREEN
\* or BLUE one.
C27_Witness ==
    /\ dynIn.added[<<<<5, 5>>, "RED">>] = 2
    /\ dynIn.removed[<<<<5, 5>>, "RED">>] = 1
    /\ dynIn.added[<<<<5, 5>>, "GREEN">>] = 1
    /\ dynIn.removed[<<<<5, 5>>, "GREEN">>] = 1
    /\ dynIn.last.op = "RemoveVehicle"
    /\ HasVehicle(dynSt, <<5, 5>>, "RED")
    /\ ~HasVehicle(dynSt, <<5, 5>>, "GREEN")
    /\ ~HasVehicle(dynSt, <<5, 5>>, "BLUE")
    /\ HasAnyVehicle(dynSt, <<5, 5>>)
    /\ ~HasAnyVehicle(dynSt, <<1, 0>>)

\* The vehicles of the database are in the index built from it, and one
\* of two RED vehicles loaded on a tile has been removed.
C27_VehiclesFromDb ==
    /\ dynIn.db.characters # {}
    /\ dynIn.added[<<<<5, 5>>, "RED">>] = 2
    /\ dynIn.removed[<<<<5, 5>>, "RED">>] = 1
    /\ HasVehicle(dynSt, <<5, 5>>, "RED")
    /\ ~HasVehicle(dynSt, <<1, 0>>, "RED")

\* The tiles covered by the buildings that were added to the index and
\* accepted, those of the database included.
CoveredTiles == UNION {BuildingShape(DynBuildings[b]) : b \in dynIn.accepted}

\* C28: IsFree (c) holds exactly if no building that was added covers c
\* and no vehicle of any faction is on c, i.e. for every faction as many
\* vehicles have been removed from c as added.
C28_IsFree ==
    \A c \in DynTiles :
       IsFree(dynSt, c) <=>
          /\ c \notin CoveredTiles
          /\ c \in VehicleTiles =>
                \A f \in DynFactions : dynIn.added[<<c, f>>] = dynIn.removed[<<c, f>>]

\* A building has been added and a vehicle stands next to it and another
\* one has left its tile again: the tiles of the building and the tile
\* of the vehicle are not free, the tile the vehicle left and a tile
\* nothing was added to are.
C28_Witness ==
    /\ dynIn.db.buildings = {}
    /\ dynIn.accepted = {1}
    /\ dynIn.added[<<<<5, 5>>, "GREEN">>] > dynIn.removed[<<<<5, 5>>, "GREEN">>]
    /\ dynIn.removed[<<<<1, 0>>, "BLUE">>] = 1
    /\ ~IsFree(dynSt, <<0, 0>>)
    /\ ~IsFree(dynSt, <<0, 2>>)
    /\ ~IsFree(dynSt, <<5, 5>>)
    /\ ~HasAnyVehicle(dynSt, <<1, 0>>)
    /\ IsFree(dynSt, <<9, 9>>)
    /\ IsFree(dynSt, <<10, 5>>)

\* Whether building b overlaps a building of index dyn.
Overlaps(dyn, b) == \E t \in BuildingShape(DynBuildings[b]) : IsBuilding(dyn, t)

\* C29: a building that overlaps one in the index is rejected, the bool
\* variant of AddBuilding returns false and the variant taking a building
\* aborts with "Error adding building", and the index stays as it was; a
\* building that overlaps none is accepted by both and its tiles are
\* building tiles afterwards.
C29_AddBuilding ==
    dynIn.last.op \in {"AddBuildingBool", "AddBuildingHandle"} =>
       LET b == dynIn.last.b
           before == dynIn.last.before
       IN  /\ Overlaps(before, b) =>
                /\ ~dynIn.last.ok
                /\ dynSt.buildings = before.buildings
                /\ dynIn.last.op = "AddBuildingBool" => dynSt.fatal = ""
                /\ dynIn.last.op = "AddBuildingHandle" =>
                      dynSt.fatal = "Error adding building"
           /\ ~Overlaps(before, b) =>
                /\ dynIn.last.ok
                /\ dynSt.fatal = ""
                /\ dynSt.buildings = before.buildings \cup BuildingShape(DynBuildings[b])

\* Buildings 1 and 2, which are disjoint, have been accepted and adding
\* building 1 again has aborted.
C29_Witness ==
    /\ dynIn.db.buildings = {}
    /\ dynIn.accepted = {1, 2}
    /\ dynIn.last.op = "AddBuildingHandle"
    /\ dynIn.last.b = 1
    /\ dynSt.fatal = "Error adding building"

\* The same with the bool variant: the third call has returned false.
C29_BoolVariantRejects ==
    /\ dynIn.db.buildings = {}
    /\ dynIn.accepted = {1, 2}
    /\ dynIn.calls = 3
    /\ dynIn.last.op = "AddBuildingBool"
    /\ dynIn.last.b = 1
    /\ ~dynIn.last.ok
    /\ dynSt.fatal = ""

(***************************************************************************)
(* Specification SpecEnt: blocks in which character 3 may send the move to *)
(* enter building 1 and walk towards it while character 2, its enemy,      *)
(* stands by with a gun.  The calls of UpdateState are made in the order   *)
(* of PhaseOrder; the HP of the fighters are not followed.                 *)
(***************************************************************************)
MaxEntBlocks == 3

Enterer == <<TYPE_CHARACTER, 3>>

Gunner == <<TYPE_CHARACTER, 2>>

EntBuilding == <<TYPE_BUILDING, 1>>

\* The rows before the first block: nobody is inside the building, has
\* an intent to enter or a target.
EntStartRows(pos) ==
    [exists |-> [k \in Keys |-> TRUE],
     pos |-> pos,
     hp |-> [k \in Keys |-> FullHp],
     effects |-> [k \in Keys |-> NoFx],
     target |-> [k \in Keys |-> NoTarget],
     friendly |-> [k \in Keys |-> FALSE],
     dl |-> {},
     inBuilding |-> [k \in Keys |-> Unset],
     enterBuilding |-> [k \in Keys |-> Unset],
     moving |-> [k \in Keys |-> FALSE]]

\* The rows as the fighter table and the target finder see them: a
\* character inside a building has no position on the map.
OnMapRows(db) ==
    [db EXCEPT !.exists = [k \in Keys |-> db.exists[k] /\ db.inBuilding[k] = Unset]]

\* Whether character c can enter the building it wants to enter: the
\* building exists and the character is within the enter radius of its
\* centre.
CanEnter(cfg, db, c) ==
    /\ db.exists[c]
    /\ db.inBuilding[c] = Unset
    /\ db.enterBuilding[c] # Unset
    /\ db.exists[<<TYPE_BUILDING, db.enterBuilding[c]>>]
    /\ DistanceL1(db.pos[c], db.pos[<<TYPE_BUILDING, db.enterBuilding[c]>>])
          <= cfg.enter_radius

\* ProcessEnterBuildings: every character that can enter the building it
\* wants to enter is put inside, loses its intent and its target and
\* stops; an intent for a building that is gone is dropped.
ProcessEnterBuildingsRows(cfg, db) ==
    LET in == {c \in Keys : CanEnter(cfg, db, c)}
        gone == {c \in Keys : /\ db.enterBuilding[c] # Unset
                              /\ ~db.exists[<<TYPE_BUILDING, db.enterBuilding[c]>>]}
    IN  [db EXCEPT
           !.inBuilding = [k \in Keys |-> IF k \in in THEN db.enterBuilding[k]
                                          ELSE @[k]],
           !.enterBuilding = [k \in Keys |-> IF k \in in \cup gone THEN Unset
                                             ELSE @[k]],
           !.target = [k \in Keys |-> IF k \in in THEN NoTarget ELSE @[k]],
           !.moving = [k \in Keys |-> IF k \in in THEN FALSE ELSE @[k]]]

\* ProcessAllMovement: a moving character on the map steps one tile
\* towards the building unless another character stands there, and stops
\* next to the building.
ProcessAllMovementRows(db) ==
    LET next(c) == <<db.pos[c][1] - 1, db.pos[c][2]>>
        steps(c) == /\ db.exists[c] /\ db.inBuilding[c] = Unset /\ db.moving[c]
                    /\ db.pos[c][1] > 1
                    /\ \A k \in Keys \ {c} : db.pos[k] # next(c)
    IN  [db EXCEPT
           !.pos = [k \in Keys |-> IF steps(k) THEN next(k) ELSE @[k]],
           !.moving = [k \in Keys |-> @[k] /\ steps(k) /\ next(k)[1] > 1]]

EntInit ==
    /\ CdIdle
    /\ DetIdle
    /\ BlkIdle
    /\ OrdIdle
    /\ FnIdle
    /\ MapIdle
    /\ KillIdle
    /\ BldIdle
    /\ DynIdle
    /\ BusyIdle
    /\ AccIdle
    /\ entCfg \in [faction : {FactionsWith(Gunner)},
                   cd : {[k \in Keys |-> IF IsCharacter(k) THEN CdGun
                                         ELSE NoCombatData]},
                   max_hp : {[k \in Keys |-> MaxHpOf]},
                   regeneration_mhp : {[k \in Keys |-> RegenRate]},
                   enter_radius : {1, 2}]
    /\ \E x2 \in {2, 4}, x3 \in {1, 2, 3, 4} :
          /\ x2 # x3
          /\ LET rows == EntStartRows([k \in Keys |->
                            IF k = Gunner THEN <<x2, 0>>
                            ELSE IF k = Enterer THEN <<x3, 0>>
                            ELSE <<0, 0>>])
             IN  entSt = [db |-> rows, start |-> rows, phase |-> 1, blocks |-> 1,
                          entered |-> {}, selected |-> {}, selPos |-> rows.pos,
                          killed |-> {}]

EntOthersUnchanged ==
    UNCHANGED <<entCfg, cdVars, detVars, blkVars, ordVars, fnVars, mapVars,
                killVars, bldVars, dynVars, busyVars, accVars>>

EntInPhase(ph) ==
    entSt.phase <= Len(PhaseOrder) /\ PhaseOrder[entSt.phase] = ph

EntBlockEnd == entSt.phase > Len(PhaseOrder)

\* MoveProcessor::ProcessAll: the owner of character 3 may send the move
\* to enter building 1, waypoints towards it, both or nothing.
\* The targets stored on the fighters that are on the map: the fighters
\* DealCombatDamage deals damage to.
StoredTargets(db) ==
    {db.target[f] : f \in {k \in Keys : /\ db.exists[k]
                                        /\ db.inBuilding[k] = Unset
                                        /\ db.target[k] # NoTarget}}

\* ProcessKills for dead fighter k: its row is deleted, and with a
\* building the characters inside it.
EntProcessKill(db, k) ==
    LET d == ProcessKill(db, k)
    IN  IF k[1] = TYPE_BUILDING
        THEN [d EXCEPT !.exists = [c \in Keys |->
                                     @[c] /\ db.inBuilding[c] # k[2]]]
        ELSE d

\* AllHpUpdates: damage is dealt to the stored targets, and ProcessKills
\* deletes the fighter the damage has killed, if any.
EntAllHpUpdates ==
    /\ EntInPhase("AllHpUpdates")
    /\ \E dead \in SUBSET StoredTargets(entSt.db) :
          /\ Cardinality(dead) <= 1
          /\ \A k \in dead : entSt.db.exists[k]
          /\ entSt' = [entSt EXCEPT
                         !.phase = @ + 1,
                         !.killed = dead,
                         !.db = IF dead = {} THEN @
                                ELSE EntProcessKill(@, CHOOSE k \in dead : TRUE)]
    /\ EntOthersUnchanged

EntProcessAll ==
    /\ EntInPhase("ProcessAll")
    /\ \E enter \in BOOLEAN, go \in BOOLEAN :
          LET onMap == entSt.db.exists[Enterer] /\ entSt.db.inBuilding[Enterer] = Unset
          IN  entSt' = [entSt EXCEPT
                          !.phase = @ + 1,
                          !.db.enterBuilding[Enterer] =
                              IF enter /\ onMap THEN EntBuilding[2] ELSE @,
                          !.db.moving[Enterer] = IF go /\ onMap THEN TRUE ELSE @]
    /\ EntOthersUnchanged

EntProcessAllMovement ==
    /\ EntInPhase("ProcessAllMovement")
    /\ entSt' = [entSt EXCEPT !.phase = @ + 1,
                              !.db = ProcessAllMovementRows(entSt.db)]
    /\ EntOthersUnchanged

EntProcessEnterBuildings ==
    /\ EntInPhase("ProcessEnterBuildings")
    /\ entSt' = [entSt EXCEPT
                    !.phase = @ + 1,
                    !.db = ProcessEnterBuildingsRows(entCfg, entSt.db),
                    !.entered = {c \in Keys : CanEnter(entCfg, entSt.db, c)}]
    /\ EntOthersUnchanged

EntFindCombatTargets ==
    /\ EntInPhase("FindCombatTargets")
    /\ \E tg \in TargetChoices(entCfg, OnMapRows(entSt.db)) :
          entSt' = [entSt EXCEPT
                       !.phase = @ + 1,
                       !.db = [FindCombatTargetsWith(entCfg, OnMapRows(entSt.db), tg)
                                  EXCEPT !.exists = entSt.db.exists],
                       !.selected =
                           {tg[f] : f \in WithAttacks(entCfg, OnMapRows(entSt.db))}
                              \ {NoTarget},
                       !.selPos = entSt.db.pos]
    /\ EntOthersUnchanged

\* The other calls of UpdateState leave positions, intents and targets.
EntOtherPhase ==
    /\ entSt.phase <= Len(PhaseOrder)
    /\ PhaseOrder[entSt.phase] \notin {"AllHpUpdates", "ProcessAll",
                                       "ProcessAllMovement",
                                       "ProcessEnterBuildings", "FindCombatTargets"}
    /\ entSt' = [entSt EXCEPT !.phase = @ + 1]
    /\ EntOthersUnchanged

EntNextBlock ==
    /\ EntBlockEnd
    /\ entSt.blocks < MaxEntBlocks
    /\ entSt' = [entSt EXCEPT !.phase = 1, !.blocks = @ + 1, !.start = entSt.db,
                              !.entered = {}, !.selected = {}, !.killed = {}]
    /\ EntOthersUnchanged

EntNext ==
    \/ EntAllHpUpdates
    \/ EntProcessAll
    \/ EntProcessAllMovement
    \/ EntProcessEnterBuildings
    \/ EntFindCombatTargets
    \/ EntOtherPhase
    \/ EntNextBlock

SpecEnt == EntInit /\ [][EntNext]_vars

\* C30: at the end of a block no character that entered a building in the
\* block has been selected as target by the block's target selection and
\* no fighter on the map with attacks has a target inside a building; and
\* no character is left on the map that has the intent to enter an
\* existing building and stands within its enter radius, so a character
\* whose intent and position became valid in the block has entered.
C30_EnterBeforeTargets ==
    EntBlockEnd =>
       /\ entSt.entered \cap entSt.selected = {}
       /\ \A f \in WithAttacks(entCfg, OnMapRows(entSt.db)) :
             entSt.db.target[f] # NoTarget =>
                entSt.db.inBuilding[entSt.db.target[f]] = Unset
       /\ \A c \in Keys : ~CanEnter(entCfg, entSt.db, c)

\* Character 3 was the target of character 2 and had no intent to enter
\* when the block started; in the block it sent the move, stepped into
\* the enter radius and entered, still within the range of the gun of
\* character 2, which has not selected it.
C30_Witness ==
    /\ EntBlockEnd
    /\ entSt.start.target[Gunner] = Enterer
    /\ entSt.start.enterBuilding[Enterer] = Unset
    /\ entSt.start.pos[Enterer] # entSt.db.pos[Enterer]
    /\ ~CanEnter(entCfg, [entSt.start EXCEPT !.enterBuilding[Enterer] = 1], Enterer)
    /\ entSt.entered = {Enterer}
    /\ entSt.db.inBuilding[Enterer] = 1
    /\ DistanceL1(entSt.db.pos[Gunner], entSt.db.pos[Enterer]) <= 2
    /\ entSt.db.target[Gunner] # Enterer

(***************************************************************************)
(* Specification SpecBusy: the busy phase of UpdateState together with     *)
(* the kills before it and the moves after it.  A character's operation    *)
(* is its busy counter and its busy_case.  The state is                    *)
(*   [db       exists, busy, busy_case, inv per character,                 *)
(*             prospecting_character, prospection per region,              *)
(*             found per prize,                                            *)
(*    phase, blocks, aborted   where UpdateState stands,                   *)
(*    start    the rows at the start of the block,                         *)
(*    before   the rows before the last busy phase,                        *)
(*    started, age   the busy blocks an operation was started with and     *)
(*             the busy phases it has seen since,                          *)
(*    finalised, finAge, killed, rolled   what the block has done so far]  *)
(***************************************************************************)
MaxBusy == 2

MaxBusyBlocks == 3

BusyIds == {1, 2, 3}

\* The region a character stands in; the characters do not move.
BusyRegion(c) == c

\* params.ProspectingPrizes (): name, number and probability (one in ...).
Prizes ==
    <<[name |-> "gold", number |-> 2, probability |-> 3],
      [name |-> "bronze", number |-> 1, probability |-> 1]>>

PrizeNames == {Prizes[i].name : i \in DOMAIN Prizes}

\* The results rnd.ProbabilityRoll (1, probability) can have.
PrizeRoll(probability) == IF probability = 1 THEN {TRUE} ELSE BOOLEAN

\* CharacterTable::QueryBusyDone: the characters whose busy counter is 1.
QueryBusyDone(db) == {c \in BusyIds : db.exists[c] /\ db.busy[c] = 1}

\* CharacterTable::DecrementBusy: every busy counter above zero goes down
\* by one.
DecrementBusy(db) ==
    [db EXCEPT !.busy = [c \in BusyIds |-> IF @[c] > 0 THEN @[c] - 1 ELSE 0]]

RECURSIVE PrizeLoop_NoCap(_, _, _, _)
PrizeLoop_NoCap(db, id, rolls, i) ==
    IF i > Len(Prizes) THEN db
    ELSE IF ~rolls[i] THEN PrizeLoop_NoCap(db, id, rolls, i + 1)
    ELSE [db EXCEPT !.found[Prizes[i].name] = @ + 1,
                    !.inv[id][Prizes[i].name] = @ + 1]

\* FinishProspecting, the prize loop: the prizes are tried in the order of
\* the configuration; a prize whose found counter has reached its number
\* is skipped without a roll, and the first prize won ends the loop.
RECURSIVE PrizeLoop(_, _, _, _)
PrizeLoop(db, id, rolls, i) ==
    IF i > Len(Prizes) THEN db
    ELSE IF db.found[Prizes[i].name] = Prizes[i].number
         THEN PrizeLoop(db, id, rolls, i + 1)
    ELSE IF ~rolls[i] THEN PrizeLoop(db, id, rolls, i + 1)
    ELSE [db EXCEPT !.found[Prizes[i].name] = @ + 1,
                    !.inv[id][Prizes[i].name] = @ + 1]

\* A region without prospection result.
NoProspection == [name |-> Unset, height |-> Unset]

\* FinishProspecting: the region records the result and is no longer
\* being prospected, the prize loop runs, and the character is no longer
\* busy.
FinishProspecting(db, id, rolls, height) ==
    LET r == BusyRegion(id)
        done == [db EXCEPT !.prospecting_character[r] = Unset,
                           !.prospection[r] = [name |-> id, height |-> height],
                           !.busy[id] = 0,
                           !.busy_case[id] = "not_set"]
    IN  PrizeLoop(done, id, rolls, 1)

\* The lowest id of a non-empty set of characters.
FirstOf(cs) == CHOOSE c \in cs : \A d \in cs : c <= d

\* ProcessBusy, the loop over QueryBusyDone in the order of the ids; the
\* result is [db, aborted].
RECURSIVE ProcessBusyLoop(_, _, _, _)
ProcessBusyLoop(db, todo, rolls, height) ==
    IF todo = {} THEN [db |-> db, aborted |-> FALSE]
    ELSE LET c == FirstOf(todo)
         IN  IF db.busy[c] # 1 \/ db.busy_case[c] # "prospection"
             THEN [db |-> db, aborted |-> TRUE]
             ELSE LET s2 == FinishProspecting(db, c, rolls[c], height)
                  IN  IF s2.busy[c] # 0 THEN [db |-> s2, aborted |-> TRUE]
                      ELSE ProcessBusyLoop(s2, todo \ {c}, rolls, height)

ProcessBusyRows_NoDecrement(db, rolls, height) ==
    ProcessBusyLoop(db, QueryBusyDone(db), rolls, height)

\* ProcessBusy: the finished operations are finalised, then the counters
\* of the others are decremented.
ProcessBusyRows(db, rolls, height) ==
    LET res == ProcessBusyLoop(db, QueryBusyDone(db), rolls, height)
    IN  IF res.aborted THEN res
        ELSE [db |-> DecrementBusy(res.db), aborted |-> FALSE]

\* KillProcessor::ProcessCharacter on these rows: the prospection of a
\* busy character is cancelled in its region and the row is deleted.
BusyProcessCharacter(db, id) ==
    LET cancelled ==
            IF db.busy[id] > 0 /\ db.busy_case[id] = "prospection"
            THEN [db EXCEPT !.prospecting_character[BusyRegion(id)] = Unset]
            ELSE db
    IN  [cancelled EXCEPT !.exists[id] = FALSE, !.busy[id] = 0,
                          !.busy_case[id] = "not_set"]

\* The move that starts a prospection: the character is free and its
\* region is neither being prospected nor prospected already.
CanProspectRegion(db, c) ==
    /\ db.exists[c]
    /\ db.busy[c] = 0
    /\ db.prospecting_character[BusyRegion(c)] = Unset
    /\ db.prospection[BusyRegion(c)] = NoProspection

StartProspecting(db, c, n) ==
    [db EXCEPT !.busy[c] = n, !.busy_case[c] = "prospection",
               !.prospecting_character[BusyRegion(c)] = c]

NoPrizes == [p \in PrizeNames |-> 0]

\* The rows at the start: every character is free or prospecting its
\* region; character 3 may have a row whose busy_case this version does
\* not know.
BusyStartRows(busy, other) ==
    [exists |-> [c \in BusyIds |-> TRUE],
     busy |-> busy,
     busy_case |-> [c \in BusyIds |-> IF busy[c] = 0 THEN "not_set"
                                      ELSE IF c = 3 /\ other THEN "other"
                                      ELSE "prospection"],
     inv |-> [c \in BusyIds |-> NoPrizes],
     prospecting_character |->
         [c \in BusyIds |-> IF busy[c] > 0 /\ ~(c = 3 /\ other) THEN c
                            ELSE Unset],
     prospection |-> [c \in BusyIds |-> NoProspection],
     found |-> NoPrizes]

BusyInit ==
    /\ CdIdle
    /\ DetIdle
    /\ BlkIdle
    /\ OrdIdle
    /\ FnIdle
    /\ MapIdle
    /\ KillIdle
    /\ BldIdle
    /\ DynIdle
    /\ EntIdle
    /\ AccIdle
    /\ \E busy \in [BusyIds -> 0..MaxBusy], other \in BOOLEAN :
          /\ other => busy[3] > 0
          /\ LET rows == BusyStartRows(busy, other)
             IN  busySt = [db |-> rows, phase |-> 1, blocks |-> 1,
                           aborted |-> FALSE, start |-> rows, before |-> rows,
                           started |-> [c \in BusyIds |->
                                           IF busy[c] > 0 THEN busy[c]
                                           ELSE Unset],
                           age |-> [c \in BusyIds |-> 0],
                           finalised |-> {}, finAge |-> [c \in BusyIds |-> Unset],
                           killed |-> {}, rolled |-> {}, busyDone |-> FALSE]

BusyOthersUnchanged ==
    UNCHANGED <<cdVars, detVars, blkVars, ordVars, fnVars, mapVars, killVars,
                bldVars, dynVars, entVars, accVars>>

BusyInPhase(ph) ==
    /\ ~busySt.aborted
    /\ busySt.phase <= Len(PhaseOrder)
    /\ PhaseOrder[busySt.phase] = ph

BusyHeight == StartHeight + busySt.blocks

\* AllHpUpdates: the damage of the block kills some of the characters and
\* ProcessKills handles them in the order of their ids.
RECURSIVE BusyProcessKills(_, _)
BusyProcessKills(db, dead) ==
    IF dead = {} THEN db
    ELSE BusyProcessKills(BusyProcessCharacter(db, FirstOf(dead)),
                          dead \ {FirstOf(dead)})

BusyAllHpUpdates ==
    /\ BusyInPhase("AllHpUpdates")
    /\ \E dead \in SUBSET {c \in BusyIds : busySt.db.exists[c]} :
          /\ Cardinality(dead) <= 1
          /\ \E s2 \in {BusyProcessKills(busySt.db, dead)} :
                busySt' = [busySt EXCEPT !.db = s2, !.phase = @ + 1,
                                         !.killed = @ \cup dead]
    /\ BusyOthersUnchanged

\* ProcessBusy with the rolls of the prize loops.
BusyProcessBusy ==
    /\ BusyInPhase("ProcessBusy")
    /\ \E rolls \in [BusyIds -> [DOMAIN Prizes -> BOOLEAN]] :
          /\ \A c \in BusyIds, i \in DOMAIN Prizes :
                rolls[c][i] \in IF c \in QueryBusyDone(busySt.db)
                                THEN PrizeRoll(Prizes[i].probability)
                                ELSE {FALSE}
          /\ \E res \in {ProcessBusyRows(busySt.db, rolls, BusyHeight)} :
                IF res.aborted
                THEN busySt' = [busySt EXCEPT !.aborted = TRUE,
                                              !.before = busySt.db,
                                              !.busyDone = TRUE]
                ELSE LET fin == {c \in BusyIds :
                                    /\ busySt.db.exists[c]
                                    /\ busySt.db.busy[c] > 0
                                    /\ res.db.busy_case[c] = "not_set"}
                         age == [c \in BusyIds |->
                                    IF busySt.db.exists[c] /\ busySt.db.busy[c] > 0
                                    THEN busySt.age[c] + 1 ELSE busySt.age[c]]
                     IN  busySt' =
                           [busySt EXCEPT
                              !.db = res.db, !.phase = @ + 1,
                              !.before = busySt.db, !.busyDone = TRUE,
                              !.age = age,
                              !.finalised = fin,
                              !.finAge = [c \in BusyIds |->
                                            IF c \in fin THEN age[c] ELSE @[c]],
                              !.rolled = {c \in fin :
                                            \E i \in DOMAIN Prizes :
                                               busySt.db.found[Prizes[i].name]
                                                  < Prizes[i].number}]
    /\ BusyOthersUnchanged

\* ProcessAll: the moves of the block start prospections.
BusyProcessAll ==
    /\ BusyInPhase("ProcessAll")
    /\ \E n \in [BusyIds -> 0..MaxBusy] :
          /\ \A c \in BusyIds : n[c] > 0 => CanProspectRegion(busySt.db, c)
          /\ Cardinality({c \in BusyIds : n[c] > 0}) <= 1
          /\ busySt' =
               [busySt EXCEPT
                  !.db = [@ EXCEPT
                            !.busy = [c \in BusyIds |->
                                        IF n[c] > 0 THEN n[c] ELSE @[c]],
                            !.busy_case = [c \in BusyIds |->
                                        IF n[c] > 0 THEN "prospection" ELSE @[c]],
                            !.prospecting_character = [c \in BusyIds |->
                                        IF n[c] > 0 THEN c ELSE @[c]]],
                  !.phase = @ + 1,
                  !.started = [c \in BusyIds |-> IF n[c] > 0 THEN n[c] ELSE @[c]],
                  !.age = [c \in BusyIds |-> IF n[c] > 0 THEN 0 ELSE @[c]]]
    /\ BusyOthersUnchanged

\* The phases that do not touch these rows.
BusyOtherPhase ==
    /\ ~busySt.aborted
    /\ busySt.phase <= Len(PhaseOrder)
    /\ PhaseOrder[busySt.phase] \notin {"AllHpUpdates", "ProcessBusy", "ProcessAll"}
    /\ busySt' = [busySt EXCEPT !.phase = @ + 1]
    /\ BusyOthersUnchanged

BusyNextBlock ==
    /\ ~busySt.aborted
    /\ busySt.phase > Len(PhaseOrder)
    /\ busySt.blocks < MaxBusyBlocks
    /\ busySt' = [busySt EXCEPT !.phase = 1, !.blocks = @ + 1,
                                !.start = busySt.db, !.finalised = {},
                                !.killed = {}, !.rolled = {},
                                !.busyDone = FALSE]
    /\ BusyOthersUnchanged

BusyNext ==
    \/ BusyAllHpUpdates
    \/ BusyProcessBusy
    \/ BusyProcessAll
    \/ BusyOtherPhase
    \/ BusyNextBlock

SpecBusy == BusyInit /\ [][BusyNext]_vars

\* The busy phase of this block has just run and did not abort.
BusyJustRan ==
    /\ busySt.busyDone
    /\ ~busySt.aborted
    /\ busySt.phase > 1
    /\ PhaseOrder[busySt.phase - 1] = "ProcessBusy"

\* C31: the busy phase finalises exactly the characters whose counter is
\* 1 and leaves them with counter 0, and decrements the counter of every
\* other busy character by one; an operation started with n busy blocks
\* is finalised in the n-th busy phase after its start, not earlier and
\* not later; the process aborts exactly when a finished operation has a
\* busy case that is not known.
C31_BusyPhase ==
    /\ BusyJustRan =>
          \A c \in BusyIds :
             busySt.before.exists[c] =>
                /\ busySt.before.busy[c] = 1 =>
                      /\ c \in busySt.finalised
                      /\ busySt.db.busy[c] = 0
                      /\ busySt.db.prospection[BusyRegion(c)] # NoProspection
                /\ busySt.before.busy[c] > 1 =>
                      /\ c \notin busySt.finalised
                      /\ busySt.db.busy[c] = busySt.before.busy[c] - 1
                      /\ busySt.db.busy_case[c] = busySt.before.busy_case[c]
                /\ busySt.before.busy[c] = 0 =>
                      /\ c \notin busySt.finalised
                      /\ busySt.db.busy[c] = 0
    /\ \A c \in BusyIds :
          /\ busySt.finAge[c] # Unset => busySt.finAge[c] = busySt.started[c]
          /\ (busySt.db.exists[c] /\ busySt.db.busy[c] > 0) =>
                busySt.db.busy[c] + busySt.age[c] = busySt.started[c]
    /\ busySt.aborted =>
          \E c \in QueryBusyDone(busySt.before) :
             busySt.before.busy_case[c] # "prospection"
    /\ BusyJustRan =>
          \A c \in QueryBusyDone(busySt.before) :
             busySt.before.busy_case[c] = "prospection"

\* A prospection that had two busy blocks to go is finalised in
\* the second busy phase after that, while the counter of another
\* character goes from 2 to 1.
C31_Witness ==
    /\ BusyJustRan
    /\ \E c, d \in BusyIds :
          /\ c \in busySt.finalised
          /\ busySt.finAge[c] = 2
          /\ busySt.started[c] = 2
          /\ busySt.before.busy[d] = 2
          /\ busySt.db.busy[d] = 1

\* A finished operation with an unknown busy case has aborted the
\* process.
C31_AbortOnUnknownCase ==
    /\ busySt.aborted
    /\ \E c \in BusyIds : busySt.before.busy[c] = 1
                          /\ busySt.before.busy_case[c] = "other"

\* GameStateJson::PrizeStats: number, probability, found and available of
\* every prize.
PrizeStats(db) ==
    [i \in DOMAIN Prizes |->
        [number |-> Prizes[i].number, probability |-> Prizes[i].probability,
         found |-> db.found[Prizes[i].name],
         available |-> Prizes[i].number - db.found[Prizes[i].name]]]

\* CHECK_LE (found, p.number) of PrizeStats.
PrizeStatsCheckFails(db) ==
    \E i \in DOMAIN Prizes : db.found[Prizes[i].name] > Prizes[i].number

C32_FoundWithinNumber ==
    /\ ~PrizeStatsCheckFails(busySt.db)
    /\ \A i \in DOMAIN Prizes : PrizeStats(busySt.db)[i].available >= 0

C32_FoundMonotonic ==
    \A p \in PrizeNames :
       /\ busySt'.db.found[p] >= busySt.db.found[p]
       /\ (\E i \in DOMAIN Prizes :
              Prizes[i].name = p /\ busySt.db.found[p] = Prizes[i].number)
             => busySt'.db.found[p] = busySt.db.found[p]

\* C32: after any sequence of finished prospections the found counter of
\* every prize is at most the configured number of that prize (the check
\* of PrizeStats passes), the counter never decreases, and once it has
\* reached the number it does not change any more.
C32_PrizeCaps == [](C32_FoundWithinNumber) /\ [][C32_FoundMonotonic]_vars

\* Both gold prizes had been found before the last busy phase; the
\* prospection finalised in it found the bronze prize instead.
C32_Witness ==
    /\ BusyJustRan
    /\ busySt.finalised # {}
    /\ busySt.before.found["gold"] = 2
    /\ busySt.db.found["gold"] = 2
    /\ busySt.before.found["bronze"] = 0
    /\ busySt.db.found["bronze"] = 1

\* The prospecting characters killed in the block in which their
\* prospection would finish.
KilledWhenDue ==
    {c \in busySt.killed : /\ busySt.start.exists[c]
                           /\ busySt.start.busy[c] = 1
                           /\ busySt.start.busy_case[c] = "prospection"}

\* C38: a prospecting character killed in the block in which its
\* prospection would finish is not finalised: its region is no longer
\* being prospected, has no new prospection result, and no prize roll is
\* made for it, since the kills of the block run before its busy phase.
C38_KilledNotFinalised ==
    \A c \in KilledWhenDue :
       /\ c \notin busySt.finalised
       /\ c \notin busySt.rolled
       /\ busySt.db.prospecting_character[BusyRegion(c)] = Unset
       /\ busySt.db.prospection[BusyRegion(c)]
             = busySt.start.prospection[BusyRegion(c)]
       /\ busySt.db.inv[c] = busySt.start.inv[c]

\* The busy phase has run after such a kill and has finalised the
\* prospection of another character.
C38_Witness ==
    /\ BusyJustRan
    /\ KilledWhenDue # {}
    /\ busySt.finalised # {}
    /\ busySt.finalised \cap busySt.killed = {}

(***************************************************************************)
(* Specification SpecAcc: accounts, characters and buildings with their    *)
(* factions, the moves that create them, the kills that delete them and    *)
(* ValidateCharacterBuildingFactions at the end of every block.  The       *)
(* state is                                                                *)
(*   [db       accounts   the faction of each account, "none" without row, *)
(*             chars, buildings   exists, owner and faction per id,        *)
(*    last     the operation done last,                                    *)
(*    aborted  a CHECK of the validation has failed]                       *)
(***************************************************************************)
PlayerFactions == {"RED", "GREEN", "BLUE"}

AccCharIds == {1, 2}

\* Building 1 is an ancient building of the initial map, building 2 can
\* be built by a character.
AccBldIds == {1, 2}

NoRow == [exists |-> FALSE, owner |-> "", faction |-> "INVALID"]

\* AccountsTable::QueryInitialised: the accounts that have a row.
QueryInitialised(db) == {a \in Accounts : db.accounts[a] # "none"}

ValidateCharacterBuildingFactionsFails_NoAncientSkip(db) ==
    LET accountFactions == [a \in QueryInitialised(db) |-> db.accounts[a]]
        mismatch(h) == \/ h.owner \notin DOMAIN accountFactions
                       \/ h.faction # accountFactions[h.owner]
    IN  \/ \E a \in DOMAIN accountFactions :
              accountFactions[a] \in {"INVALID", "ANCIENT"}
        \/ \E c \in AccCharIds : db.chars[c].exists /\ mismatch(db.chars[c])
        \/ \E b \in AccBldIds :
              db.buildings[b].exists /\ mismatch(db.buildings[b])

\* ValidateCharacterBuildingFactions: one of its CHECKs fails.  The
\* factions of the initialised accounts are collected; every character
\* and every building that is not ancient must have an owner among them
\* and the faction of that owner.
ValidateCharacterBuildingFactionsFails(db) ==
    LET accountFactions == [a \in QueryInitialised(db) |-> db.accounts[a]]
        mismatch(h) == \/ h.owner \notin DOMAIN accountFactions
                       \/ h.faction # accountFactions[h.owner]
    IN  \/ \E a \in DOMAIN accountFactions :
              accountFactions[a] \in {"INVALID", "ANCIENT"}
        \/ \E c \in AccCharIds : db.chars[c].exists /\ mismatch(db.chars[c])
        \/ \E b \in AccBldIds :
              /\ db.buildings[b].exists
              /\ db.buildings[b].faction # "ANCIENT"
              /\ mismatch(db.buildings[b])

\* The move that registers an account with a faction.
RegisterAccount(db, a, f) == [db EXCEPT !.accounts[a] = f]

\* The move that creates a character for an account: the character gets
\* the faction of the account.
CreateCharacter(db, c, a) ==
    [db EXCEPT !.chars[c] = [exists |-> TRUE, owner |-> a,
                             faction |-> db.accounts[a]]]

\* The construction of a building by a character: the building gets the
\* owner and the faction of the character.
FoundBuilding(db, b, c) ==
    [db EXCEPT !.buildings[b] = [exists |-> TRUE, owner |-> db.chars[c].owner,
                                 faction |-> db.chars[c].faction]]

AccStartDb ==
    [accounts |-> [a \in Accounts |-> "none"],
     chars |-> [c \in AccCharIds |-> NoRow],
     buildings |-> [b \in AccBldIds |->
                      IF b = 1 THEN [exists |-> TRUE, owner |-> "",
                                     faction |-> "ANCIENT"]
                      ELSE NoRow]]

AccInit ==
    /\ CdIdle
    /\ DetIdle
    /\ BlkIdle
    /\ OrdIdle
    /\ FnIdle
    /\ MapIdle
    /\ KillIdle
    /\ BldIdle
    /\ DynIdle
    /\ EntIdle
    /\ BusyIdle
    /\ accSt = [db |-> AccStartDb, last |-> "init", aborted |-> FALSE]

AccOthersUnchanged ==
    UNCHANGED <<cdVars, detVars, blkVars, ordVars, fnVars, mapVars, killVars,
                bldVars, dynVars, entVars, busyVars>>

AccRegister ==
    /\ ~accSt.aborted
    /\ \E a \in Accounts, f \in PlayerFactions :
          /\ accSt.db.accounts[a] = "none"
          /\ accSt' = [accSt EXCEPT !.db = RegisterAccount(@, a, f),
                                    !.last = "register"]
    /\ AccOthersUnchanged

AccCreateCharacter ==
    /\ ~accSt.aborted
    /\ \E a \in QueryInitialised(accSt.db), c \in AccCharIds :
          /\ ~accSt.db.chars[c].exists
          /\ accSt' = [accSt EXCEPT !.db = CreateCharacter(@, c, a),
                                    !.last = "create"]
    /\ AccOthersUnchanged

AccFoundBuilding ==
    /\ ~accSt.aborted
    /\ \E c \in AccCharIds :
          /\ accSt.db.chars[c].exists
          /\ ~accSt.db.buildings[2].exists
          /\ accSt' = [accSt EXCEPT !.db = FoundBuilding(@, 2, c),
                                    !.last = "build"]
    /\ AccOthersUnchanged

\* The kills of a block delete a character or a building.
AccKill ==
    /\ ~accSt.aborted
    /\ \/ \E c \in AccCharIds :
             /\ accSt.db.chars[c].exists
             /\ accSt' = [accSt EXCEPT !.db.chars[c] = NoRow, !.last = "kill"]
       \/ \E b \in AccBldIds :
             /\ accSt.db.buildings[b].exists
             /\ accSt' = [accSt EXCEPT !.db.buildings[b] = NoRow,
                                       !.last = "kill"]
    /\ AccOthersUnchanged

\* The end of the block: ValidateStateSlow.
AccValidate ==
    /\ ~accSt.aborted
    /\ accSt.last # "validate"
    /\ accSt' = [accSt EXCEPT
                   !.aborted = ValidateCharacterBuildingFactionsFails(accSt.db),
                   !.last = "validate"]
    /\ AccOthersUnchanged

AccNext ==
    \/ AccRegister
    \/ AccCreateCharacter
    \/ AccFoundBuilding
    \/ AccKill
    \/ AccValidate

SpecAcc == AccInit /\ [][AccNext]_vars

\* Every character and every building that is not ancient has the faction
\* of its owner, every owner is an account with a row, and no account has
\* the faction INVALID or ANCIENT.
FactionsConsistent(db) ==
    /\ \A c \in AccCharIds :
          db.chars[c].exists =>
             /\ db.chars[c].owner \in QueryInitialised(db)
             /\ db.chars[c].faction = db.accounts[db.chars[c].owner]
    /\ \A b \in AccBldIds :
          (db.buildings[b].exists /\ db.buildings[b].faction # "ANCIENT") =>
             /\ db.buildings[b].owner \in QueryInitialised(db)
             /\ db.buildings[b].faction = db.accounts[db.buildings[b].owner]
    /\ \A a \in QueryInitialised(db) :
          db.accounts[a] \notin {"INVALID", "ANCIENT"}

\* Rows as a database could hold them, consistent or not.
AccRowValues ==
    {NoRow} \cup {[exists |-> TRUE, owner |-> o, faction |-> f] :
                    o \in Accounts \cup {""}, f \in {"RED", "GREEN", "ANCIENT"}}

AccDbs ==
    [accounts : {[a \in Accounts |-> IF a = "andy" THEN f ELSE g] :
                    f \in {"none", "RED", "GREEN", "ANCIENT", "INVALID"},
                    g \in {"none", "GREEN"}},
     chars : {[c \in AccCharIds |-> IF c = 1 THEN r ELSE NoRow] :
                r \in AccRowValues},
     buildings : {[b \in AccBldIds |-> IF b = 1 THEN AccStartDb.buildings[1]
                                       ELSE r] : r \in AccRowValues}]

\* C33: after every block the factions are consistent: the validation at
\* the end of the block does not abort, every character and every
\* building that is not ancient has the faction of its owner account,
\* every owner is an initialised account and no account has the faction
\* INVALID or ANCIENT; the CHECKs of the validation fail exactly on the
\* rows for which this does not hold.
C33_FactionsConsistent ==
    /\ ~accSt.aborted
    /\ FactionsConsistent(accSt.db)
    /\ ~ValidateCharacterBuildingFactionsFails(accSt.db)
    /\ \A db \in AccDbs :
          ValidateCharacterBuildingFactionsFails(db) <=> ~FactionsConsistent(db)

\* A block has ended with characters of two factions, a building founded
\* by one of them and the ancient building.
C33_Witness ==
    /\ accSt.last = "validate"
    /\ ~accSt.aborted
    /\ accSt.db.chars[1].exists
    /\ accSt.db.chars[2].exists
    /\ accSt.db.chars[1].faction # accSt.db.chars[2].faction
    /\ accSt.db.buildings[2].exists
    /\ accSt.db.buildings[2].faction \in PlayerFactions
    /\ accSt.db.buildings[1].faction = "ANCIENT"

(***************************************************************************)
(* Specification SpecRegen: the blocks of Spec for fighters whose armour   *)
(* regenerates as well: a character with a syphon and a gun and a          *)
(* building with a gun stand against a character with a gun.               *)
(***************************************************************************)
RegenBoth == [shield |-> 500, armour |-> 100]

\* The HP a fighter may start the block with: full; hurt to no shield and
\* one armour; or that after five blocks of regeneration at RegenBoth,
\* which give 2500 shield mHP and 500 armour mHP.
RegenStartHp ==
    {[shield |-> 3, armour |-> 2, mhp |-> NoMhp],
     [shield |-> 0, armour |-> 1, mhp |-> NoMhp],
     [shield |-> 2, armour |-> 1, mhp |-> [shield |-> 500, armour |-> 500]]}

RegenInit ==
    /\ CdIdle
    /\ DetIdle
    /\ OrdIdle
    /\ FnIdle
    /\ MapIdle
    /\ KillIdle
    /\ BldIdle
    /\ DynIdle
    /\ EntIdle
    /\ BusyIdle
    /\ AccIdle
    /\ roConfig = [faction |-> FactionsWith(<<TYPE_CHARACTER, 3>>),
                   cd |-> LoadoutsOf(CdSyphon, CdGun, CdGun),
                   max_hp |-> [k \in Keys |-> MaxHpOf],
                   regeneration_mhp |-> [k \in Keys |-> RegenBoth]]
    /\ \E hp \in [Keys -> RegenStartHp] :
          \E tg \in TargetChoices(roConfig, StartRows(roConfig, hp)) :
             database = FindCombatTargetsWith(roConfig,
                                              StartRows(roConfig, hp), tg)
    /\ proc = NewProcessor(StartHeight)
    /\ run = StartRun(StartHeight)
    /\ obs = StartObs(database)

SpecRegen == RegenInit /\ [][Next]_vars

\* C34 (as stated): at every call of RegenerateHP every fighter it
\* processes has, for shield and for armour, current HP below the maximum,
\* or current HP at the maximum and no partial HP, also after gained HP
\* has been credited in the damage phase of the block; the CHECK at the
\* head of RegenerateHpType never fails.
C34_RegenPrecondition ==
    InHpStep("RegenerateHP") =>
        \A f \in ProcessForRegen(roConfig, database) :
            /\ RegenPrecondition(roConfig.max_hp[f].shield,
                                 database.hp[f].shield,
                                 database.hp[f].mhp.shield)
            /\ RegenPrecondition(roConfig.max_hp[f].armour,
                                 database.hp[f].armour,
                                 database.hp[f].mhp.armour)

\* C35 (as stated): at the reconciliation of gained HP every entry
\* recorded for a gain_hp attack, per target and attacker, has no armour
\* drained and strictly positive shield drained, whatever the outcome of
\* the attack was; the CHECKs of the reconciliation never fail.
C35_DrainEntriesPositive ==
    (InStage("reconcile") /\ proc.abort = "") =>
        \A t \in DOMAIN proc.gainHpDrained :
           \A a \in DOMAIN proc.gainHpDrained[t] :
              /\ proc.gainHpDrained[t][a].armour = 0
              /\ proc.gainHpDrained[t][a].shield > 0

\* The rows of the fighters on the map differ in who exists, who is on
\* the map or where somebody stands.
EntMovedOrDeleted ==
    \/ entSt'.db.exists # entSt.db.exists
    \/ entSt'.db.inBuilding # entSt.db.inBuilding
    \/ entSt'.db.pos # entSt.db.pos

C36_TargetsValidAtDamage ==
    EntInPhase("AllHpUpdates") =>
        \A f \in Keys :
           (/\ entSt.db.exists[f]
            /\ entSt.db.inBuilding[f] = Unset
            /\ entSt.db.target[f] # NoTarget) =>
               /\ entSt.db.exists[entSt.db.target[f]]
               /\ entSt.db.inBuilding[entSt.db.target[f]] = Unset
               /\ entSt.db.pos[entSt.db.target[f]]
                     = entSt.selPos[entSt.db.target[f]]
               /\ entSt.db.pos[f] = entSt.selPos[f]

C36_ChangesBetween ==
    EntMovedOrDeleted =>
        /\ entSt.phase <= Len(PhaseOrder)
        /\ IndexOf(PhaseOrder, "AllHpUpdates") <= entSt.phase
        /\ entSt.phase < IndexOf(PhaseOrder, "FindCombatTargets")

\* C36: whenever damage is dealt at the start of a block, every target
\* stored on a fighter on the map is a fighter that exists, is on the map
\* and stands where it stood when the targets were selected in the last
\* phase of the previous block; fighters are deleted, moved or taken off
\* the map only in the phases from the damage dealing on and before the
\* target selection.
C36_TargetsStillThere ==
    [](C36_TargetsValidAtDamage) /\ [][C36_ChangesBetween]_vars

\* Damage is about to be dealt with a stored target that was selected
\* at the end of a block in which another fighter was killed.
C36_Witness ==
    /\ EntInPhase("AllHpUpdates")
    /\ \E f, k \in Keys :
          /\ ~entSt.db.exists[k]
          /\ entSt.db.exists[f]
          /\ entSt.db.target[f] \notin {NoTarget, k}
          /\ entSt.db.exists[entSt.db.target[f]]
          /\ entSt.start.target[f] = entSt.db.target[f]

(***************************************************************************)
(* C37: the loop of self-destruct rounds in DamageProcessor::Process.      *)
(***************************************************************************)
\* The fighters that are alive as far as the processor knows, and with them
\* the self-destruct runs that are still queued: the loop's variant.
CascadeVariant(p) ==
    (Cardinality(Keys) + 1) * Cardinality(Keys \ p.alreadyDead) + Len(p.toProcess)

\* C37, the part about states: while the loop runs there is something left
\* to do, the queued fighters are dead, distinct and were merged in the
\* current round, and no CHECK of the loop has failed.
C37_CascadeState ==
    /\ proc.abort # "Process: target was already dead before"
    /\ \A i, j \in 1..Len(proc.toProcess) :
          /\ proc.toProcess[i] \in proc.alreadyDead
          /\ i # j => proc.toProcess[i] # proc.toProcess[j]
    /\ InStage("selfdestruct") => proc.toProcess # <<>> \/ proc.newDead # {}
    /\ ~InHpStep("DealCombatDamage") => proc.toProcess = <<>>

\* C37, the part about steps: a step of the loop is either the merge at the
\* head of a round, which queues exactly the fighters that were newly dead
\* and not dead before, or the self-destructs of the first queued fighter,
\* which is removed from the queue and never queued again; each step
\* decreases the variant, and the loop is left when nothing is queued and
\* nobody is newly dead.
C37_CascadeStep ==
    InStage("selfdestruct") =>
        /\ proc.alreadyDead \subseteq proc'.alreadyDead
        /\ CascadeVariant(proc') < CascadeVariant(proc)
        /\ IF proc.toProcess = <<>>
           THEN /\ proc.newDead \cap proc.alreadyDead = {}
                /\ proc'.alreadyDead = proc.alreadyDead \cup proc.newDead
                /\ {proc'.toProcess[i] : i \in 1..Len(proc'.toProcess)} = proc.newDead
                /\ proc'.newDead = {}
           ELSE /\ proc'.toProcess = Tail(proc.toProcess)
                /\ proc'.alreadyDead = proc.alreadyDead
                /\ proc.newDead \subseteq proc'.newDead
                /\ \A i \in (Len(proc.log) + 1)..Len(proc'.log) :
                      /\ proc'.log[i].kind = "selfdestruct"
                      /\ proc'.log[i].attacker = Head(proc.toProcess)
        /\ (proc'.toProcess = <<>> /\ proc'.newDead = {}) <=> ~InStage("selfdestruct")'

\* C37: the self-destruct cascade terminates: each round adds only fighters
\* that were not dead before, the self-destructs of each dead fighter are
\* run once, every step of the loop decreases a natural-number variant, and
\* the loop ends when a round kills nobody.
C37_CascadeTerminates == [](C37_CascadeState) /\ [][C37_CascadeStep]_vars

\* The loop is left after two rounds: the fighters killed by attacks
\* self-destructed and killed another fighter, whose self-destructs in the
\* second round killed nobody.
C37_Witness ==
    /\ InStage("credit")
    /\ \E i, j \in 1..Len(proc.log) :
          /\ i < j
          /\ proc.log[i].kind = "selfdestruct" /\ proc.log[j].kind = "selfdestruct"
          /\ proc.log[i].target = proc.log[j].attacker
          /\ proc.log[i].attacker # proc.log[j].attacker
    /\ Cardinality(proc.alreadyDead) \in 2..(Cardinality(Keys) - 1)

(***************************************************************************)
(* C39: the random draws of the hit check in ApplyDamage.                  *)
(***************************************************************************)
\* The modified hit chance of the ApplyDamage call under test.
ModifiedHitChance == StatApply(fnArgs.hit_mod, BaseHitChance(fnArgs, fnArgs))

\* C39: the hit check draws nothing from the random stream when the target
\* is already dead (the attack then does nothing), when the modified hit
\* chance is at most 0 (a miss) or when it is at least 100 (a hit); in
\* every other case it makes exactly one ProbabilityRoll of the chance out
\* of 100, whose outcome decides between hit and miss.
C39_HitCheckDraws ==
    Returned("ApplyDamage") =>
        LET hit == fnOut.value.value
            draws == fnOut.value.rnd
        IN  /\ fnArgs.dead => draws = <<>> /\ ~hit
            /\ (~fnArgs.dead /\ ModifiedHitChance <= 0) => draws = <<>> /\ ~hit
            /\ (~fnArgs.dead /\ ModifiedHitChance >= 100) => draws = <<>> /\ hit
            /\ (~fnArgs.dead /\ ModifiedHitChance \in 1..99) =>
                  /\ draws = <<[numer |-> ModifiedHitChance, denom |-> 100]>>
                  /\ hit = fnArgs.outcome

\* ApplyDamage has returned for a living target with a modified hit chance
\* strictly between 0 and 100 that a modifier of the attacker produced: one
\* roll was made, and it was a miss.
C39_Witness ==
    /\ Returned("ApplyDamage")
    /\ ~fnArgs.dead
    /\ fnArgs.hit_mod # 0
    /\ ModifiedHitChance \in 1..99
    /\ Len(fnOut.value.rnd) = 1
    /\ ~fnOut.value.value

(***************************************************************************)
(* C40: when ApplyDamage adds a fighter to the dead set.                   *)
(***************************************************************************)
HpTotal(hp) == hp.shield + hp.armour

\* The ApplyDamage calls the step has made, as logged.
NewLogEntries ==
    {e \in {proc'.log[i] : i \in (Len(proc.log) + 1)..Len(proc'.log)} :
        e.kind \in {"gain", "normal", "selfdestruct"}}

\* C40, the part about steps: a step in which no CHECK fails adds a fighter
\* to the newly dead exactly if it took HP from the fighter and the fighter
\* has neither shield nor armour afterwards, whatever its partial HP are;
\* an attack that does no damage to a fighter without shield and armour
\* does not add it.
C40_KillStep ==
    proc'.abort = "" =>
        /\ \A f \in Keys :
              (f \in proc'.newDead /\ f \notin proc.newDead)
                 <=> /\ HpTotal(database'.hp[f]) < HpTotal(database.hp[f])
                     /\ HpTotal(database'.hp[f]) = 0
        /\ \A e \in NewLogEntries :
              (HpTotal(e.done) = 0 /\ HpTotal(database.hp[e.target]) = 0)
                 => ~(e.target \in proc'.newDead /\ e.target \notin proc.newDead)

\* C40: a fighter is added to the dead set iff an attack did strictly
\* positive damage to it and left it with shield plus armour zero,
\* regardless of its partial HP; zero damage to a fighter that has no
\* shield and armour left never kills it (the insert CHECK never fails).
C40_DeadIffKilled ==
    /\ [](proc.abort \notin {"ApplyDamage: target is already dead",
                             "ApplyDamage: partial HP are full"})
    /\ [][C40_KillStep]_vars

\* A fighter with partial HP left has been killed by one attack, and a
\* later attack on it in the same block has done it no damage.
C40_Witness ==
    /\ proc.abort = ""
    /\ \E f \in proc.newDead \cup proc.alreadyDead :
          /\ database.hp[f].mhp.shield > 0
          /\ HpTotal(database.hp[f]) = 0
          /\ \E i, j \in 1..Len(proc.log) :
                /\ i < j
                /\ proc.log[i].target = f /\ HpTotal(proc.log[i].done) > 0
                /\ proc.log[j].target = f /\ HpTotal(proc.log[j].done) = 0
                /\ proc.log[j].kind \in {"gain", "normal"}
                /\ proc.log[i].attacker # proc.log[j].attacker

====
